---- MODULE Spec2Model ----
(***************************************************************************)
(* Chumcred Digital Vault: the subscription ledger, the access gates of    *)
(* the pages, the payment workflow and the admin allow-list, as a state    *)
(* machine over the sqlite tables (users, documents, payments,             *)
(* activity_log), the upload folder and the Streamlit session state.       *)
(*                                                                         *)
(* TEXT values that the code converts (emails, plan names, ISO dates, the  *)
(* ADMIN_EMAILS variable) are sequences of one-character strings, so that  *)
(* strip / lower / upper / split / isoformat / fromisoformat are computed. *)
(* A SQL NULL / Python None is the value NULL.                             *)
(***************************************************************************)
EXTENDS Integers, Sequences, FiniteSets, TLC

VARIABLES
    env,          \* [many, single]: os.environ ADMIN_EMAILS / ADMIN_EMAIL
    today,        \* dt.date.today() as a proleptic Gregorian ordinal
    users,        \* table users: sequence of rows, row i has id i
    documents,    \* table documents: sequence of rows in insertion order
    doc_seq,      \* sqlite AUTOINCREMENT counter of documents
    files,        \* the upload folder: set of [path, body]
    payments,     \* table payments: sequence of rows, row i has id i
    activity_log, \* table activity_log: sequence of rows
    utc_now,      \* datetime.utcnow() in whole seconds
    sess          \* st.session_state of every browser session

vars == <<env, today, users, documents, doc_seq, files, payments, activity_log,
          utc_now, sess>>

---------------------------------------------------------------------------
(* Text helpers: Python str methods on sequences of characters             *)

NULL == <<"NULL">>
NONE == "None"

LowerAlpha == <<"a","b","c","d","e","f","g","h","i","j","k","l","m",
                "n","o","p","q","r","s","t","u","v","w","x","y","z">>
UpperAlpha == <<"A","B","C","D","E","F","G","H","I","J","K","L","M",
                "N","O","P","Q","R","S","T","U","V","W","X","Y","Z">>

\* str.lower() on one character
LowerChar(c) ==
    IF \E i \in 1..26 : UpperAlpha[i] = c
    THEN LowerAlpha[CHOOSE i \in 1..26 : UpperAlpha[i] = c]
    ELSE c

\* str.upper() on one character
UpperChar(c) ==
    IF \E i \in 1..26 : LowerAlpha[i] = c
    THEN UpperAlpha[CHOOSE i \in 1..26 : LowerAlpha[i] = c]
    ELSE c

Lower(t) == [i \in 1..Len(t) |-> LowerChar(t[i])]
Upper(t) == [i \in 1..Len(t) |-> UpperChar(t[i])]

IsSpace(c) == c \in {" ", "\t"}

RECURSIVE LStrip(_)
LStrip(t) == IF t # <<>> /\ IsSpace(Head(t)) THEN LStrip(Tail(t)) ELSE t

RECURSIVE RStrip(_)
RStrip(t) ==
    IF t # <<>> /\ IsSpace(t[Len(t)]) THEN RStrip(SubSeq(t, 1, Len(t) - 1)) ELSE t

\* str.strip()
Strip(t) == RStrip(LStrip(t))

\* Python truthiness of an Optional[str]
Truthy(t) == t # NULL /\ t # <<>>

\* (x or default)
OrElse(t, default) == IF Truthy(t) THEN t ELSE default

\* str.split(","): the pieces between the commas, empty pieces kept
RECURSIVE SplitFrom(_, _, _)
SplitFrom(t, i, cur) ==
    IF i > Len(t) THEN <<cur>>
    ELSE IF t[i] = "," THEN <<cur>> \o SplitFrom(t, i + 1, <<>>)
    ELSE SplitFrom(t, i + 1, Append(cur, t[i]))

Split(t) == SplitFrom(t, 1, <<>>)

---------------------------------------------------------------------------
(* datetime.date: ordinals, isoformat() and fromisoformat()                *)

IsLeap(y) == y % 4 = 0 /\ (y % 100 # 0 \/ y % 400 = 0)

DaysInMonthTable == <<31, 28, 31, 30, 31, 30, 31, 31, 30, 31, 30, 31>>
DaysBeforeMonthTable == <<0, 31, 59, 90, 120, 151, 181, 212, 243, 273, 304, 334>>

DaysInMonth(y, m) == IF m = 2 /\ IsLeap(y) THEN 29 ELSE DaysInMonthTable[m]

DaysBeforeMonth(y, m) ==
    DaysBeforeMonthTable[m] + (IF m > 2 /\ IsLeap(y) THEN 1 ELSE 0)

DaysBeforeYear(y) ==
    LET p == y - 1 IN p * 365 + (p \div 4) - (p \div 100) + (p \div 400)

\* date(y, m, d).toordinal()
Ymd2Ord(y, m, d) == DaysBeforeYear(y) + DaysBeforeMonth(y, m) + d

\* date.fromordinal(n) as <<year, month, day>>
Ord2Ymd(n) ==
    LET n0   == n - 1
        n400 == n0 \div 146097
        r4   == n0 % 146097
        n100 == r4 \div 36524
        r1   == r4 % 36524
        n4   == r1 \div 1461
        r2   == r1 % 1461
        n1   == r2 \div 365
        r3   == r2 % 365
        year == n400 * 400 + 1 + n100 * 100 + n4 * 4 + n1
        leap == n1 = 3 /\ (n4 # 24 \/ n100 = 3)
        mon  == (r3 + 50) \div 32
        prec == DaysBeforeMonthTable[mon] + (IF mon > 2 /\ leap THEN 1 ELSE 0)
    IN  IF n1 = 4 \/ n100 = 4 THEN <<year - 1, 12, 31>>
        ELSE IF prec > r3
             THEN LET m2 == mon - 1
                      p2 == prec - (DaysInMonthTable[m2]
                                    + (IF m2 = 2 /\ leap THEN 1 ELSE 0))
                  IN <<year, m2, r3 - p2 + 1>>
             ELSE <<year, mon, r3 - prec + 1>>

DigitChars == <<"0","1","2","3","4","5","6","7","8","9">>

IsDigit(c) == \E i \in 1..10 : DigitChars[i] = c
DigitVal(c) == (CHOOSE i \in 1..10 : DigitChars[i] = c) - 1

\* "%0<w>d" % n
RECURSIVE ZeroPad(_, _)
ZeroPad(n, w) ==
    IF w = 0 THEN <<>> ELSE Append(ZeroPad(n \div 10, w - 1), DigitChars[(n % 10) + 1])

\* date.isoformat(): "YYYY-MM-DD"
IsoFormat(n) ==
    LET ymd == Ord2Ymd(n)
    IN ZeroPad(ymd[1], 4) \o <<"-">> \o ZeroPad(ymd[2], 2) \o <<"-">> \o ZeroPad(ymd[3], 2)

RECURSIVE DigitsVal(_)
DigitsVal(t) ==
    IF t = <<>> THEN 0 ELSE DigitsVal(SubSeq(t, 1, Len(t) - 1)) * 10 + DigitVal(t[Len(t)])

AllDigits(t) == \A i \in 1..Len(t) : IsDigit(t[i])

\* date.fromisoformat(text): [ok |-> FALSE] models the raised ValueError
FromIsoFormat(t) ==
    IF /\ Len(t) = 10
       /\ t[5] = "-" /\ t[8] = "-"
       /\ AllDigits(SubSeq(t, 1, 4)) /\ AllDigits(SubSeq(t, 6, 7)) /\ AllDigits(SubSeq(t, 9, 10))
    THEN LET y == DigitsVal(SubSeq(t, 1, 4))
             m == DigitsVal(SubSeq(t, 6, 7))
             d == DigitsVal(SubSeq(t, 9, 10))
         IN IF y >= 1 /\ m \in 1..12 /\ d >= 1 /\ d <= DaysInMonth(y, m)
            THEN [ok |-> TRUE, ord |-> Ymd2Ord(y, m, d)]
            ELSE [ok |-> FALSE, ord |-> 0]
    ELSE [ok |-> FALSE, ord |-> 0]

---------------------------------------------------------------------------
(* Program constants                                                       *)

FREE_LIMIT == 5
GRACE_DAYS == 7

FREE   == <<"F","R","E","E">>
ANNUAL == <<"A","N","N","U","A","L">>

---------------------------------------------------------------------------
(* Admin allow-list (app.py, pages/5_Admin_Panel.py)                       *)

\* _load_admin_emails_from_env(): ADMIN_EMAILS if not blank, else ADMIN_EMAIL
LoadAdminEmails(e) ==
    LET raw    == IF Strip(e.many) # <<>> THEN e.many ELSE e.single
        pieces == Split(raw)
    IN { Lower(Strip(pieces[i])) : i \in { j \in 1..Len(pieces) : Strip(pieces[j]) # <<>> } }

ADMIN_EMAILS == LoadAdminEmails(env)

is_admin_email(email) ==
    IF ~Truthy(email) THEN FALSE ELSE Lower(Strip(email)) \in ADMIN_EMAILS

---------------------------------------------------------------------------
(* Subscription status (db.py)                                             *)

\* a variant in which the end date itself is no longer an active day
compute_subscription_status_exclusive(u) ==
    IF ~Truthy(u.subscription_end) THEN "expired"
    ELSE IF ~FromIsoFormat(u.subscription_end).ok THEN "expired"
    ELSE IF today < FromIsoFormat(u.subscription_end).ord THEN "active"
    ELSE IF today <= FromIsoFormat(u.subscription_end).ord + GRACE_DAYS THEN "grace"
    ELSE "expired"

\* a variant that lets an end date it cannot read count as active
compute_subscription_status_open(u) ==
    IF ~Truthy(u.subscription_end) THEN "active"
    ELSE IF ~FromIsoFormat(u.subscription_end).ok THEN "active"
    ELSE IF today <= FromIsoFormat(u.subscription_end).ord THEN "active"
    ELSE IF today <= FromIsoFormat(u.subscription_end).ord + GRACE_DAYS THEN "grace"
    ELSE "expired"

\* a variant in which a pending payment reference counts as a running plan
compute_subscription_status_pending_active(u) ==
    IF u.payment_status = "pending" THEN "active"
    ELSE IF ~Truthy(u.subscription_end) THEN "expired"
    ELSE IF ~FromIsoFormat(u.subscription_end).ok THEN "expired"
    ELSE IF today <= FromIsoFormat(u.subscription_end).ord THEN "active"
    ELSE IF today <= FromIsoFormat(u.subscription_end).ord + GRACE_DAYS THEN "grace"
    ELSE "expired"

\* a variant in which a rejected payment ends the subscription at once
compute_subscription_status_by_payment(u) ==
    IF u.payment_status = "rejected" THEN "expired"
    ELSE IF ~Truthy(u.subscription_end) THEN "expired"
    ELSE IF ~FromIsoFormat(u.subscription_end).ok THEN "expired"
    ELSE IF today <= FromIsoFormat(u.subscription_end).ord THEN "active"
    ELSE IF today <= FromIsoFormat(u.subscription_end).ord + GRACE_DAYS THEN "grace"
    ELSE "expired"

compute_subscription_status(u) ==
    LET end_str == u.subscription_end
    IN IF ~Truthy(end_str) THEN "expired"
       ELSE LET p == FromIsoFormat(end_str)
            IN IF ~p.ok THEN "expired"
               ELSE IF today <= p.ord THEN "active"
               ELSE IF today <= p.ord + GRACE_DAYS THEN "grace"
               ELSE "expired"

subscription_days_left(u) ==
    IF ~Truthy(u.subscription_end) THEN 0
    ELSE LET p == FromIsoFormat(u.subscription_end)
         IN IF ~p.ok THEN 0 ELSE p.ord - today

---------------------------------------------------------------------------
(* Tables: rows and queries (db.py)                                        *)

NoNumber == <<>>          \* a NULL in a REAL / INTEGER column
Number(n) == <<n>>

\* INSERT INTO users (full_name, email, password_hash, is_admin): the other
\* columns take their declared defaults
NewUserRow(id, full_name, email, pw_hash, is_admin) ==
    [ id                    |-> id,
      full_name             |-> full_name,
      email                 |-> email,
      password_hash         |-> pw_hash,
      is_admin              |-> IF is_admin THEN 1 ELSE 0,
      emergency_name        |-> NULL,
      emergency_email       |-> NULL,
      emergency_relation    |-> NULL,
      plan                  |-> FREE,
      subscription_start    |-> NULL,
      subscription_end      |-> NULL,
      is_premium            |-> 0,
      last_payment_amount   |-> NoNumber,
      last_payment_currency |-> NULL,
      last_payment_provider |-> NULL,
      payment_status        |-> NONE ]

UserIds == 1..Len(users)

\* generate_password_hash / check_password_hash: an opaque credential store
generate_password_hash(password) == <<"#">> \o password
check_password_hash(pw_hash, password) == pw_hash = <<"#">> \o password

\* SELECT * FROM users WHERE email=?  (<<>> when there is no such row)
get_user_by_email(email) ==
    IF \E i \in UserIds : users[i].email = email
    THEN <<users[CHOOSE i \in UserIds : users[i].email = email]>>
    ELSE <<>>

get_user_by_id(user_id) ==
    IF user_id \in UserIds THEN <<users[user_id]>> ELSE <<>>

verify_user(email, password) ==
    LET u == get_user_by_email(email)
    IN IF u = <<>> THEN <<>>
       ELSE LET pw_hash == Strip(OrElse(u[1].password_hash, <<>>))
            IN IF pw_hash = <<>> THEN <<>>
               ELSE IF check_password_hash(pw_hash, password) THEN u ELSE <<>>

Reverse(rows) == [i \in 1..Len(rows) |-> rows[Len(rows) + 1 - i]]

\* SELECT COUNT(*) FROM documents WHERE user_id=?
count_user_documents(user_id) ==
    Cardinality({ i \in 1..Len(documents) : documents[i].user_id = user_id })

\* a variant whose SELECT has no WHERE user_id=?
get_user_documents_all_users(user_id) == Reverse(documents)

\* SELECT * FROM documents WHERE user_id=? (no search text, category "All")
get_user_documents(user_id) ==
    LET Mine(d) == d.user_id = user_id IN Reverse(SelectSeq(documents, Mine))

\* a variant that lists the oldest submission first
list_pending_payments_oldest_first ==
    LET Pending(p) == /\ p.user_id \in UserIds
                      /\ users[p.user_id].payment_status = "pending"
    IN SelectSeq(payments, Pending)

\* payments p JOIN users u ON u.id = p.user_id WHERE u.payment_status = 'pending'
\* ORDER BY p.id DESC
list_pending_payments ==
    LET Pending(p) == /\ p.user_id \in UserIds
                      /\ users[p.user_id].payment_status = "pending"
    IN Reverse(SelectSeq(payments, Pending))

---------------------------------------------------------------------------
(* Table writes (db.py). Each states the new value of the tables it        *)
(* commits; an UPDATE ... WHERE id=? of an absent id changes no row.       *)

UpdateUser(user_id, NewRow(_)) ==
    [i \in UserIds |-> IF i = user_id THEN NewRow(users[i]) ELSE users[i]]

create_user_insert(full_name, email, password, is_admin) ==
    users' = Append(users,
                    NewUserRow(Len(users) + 1, full_name, email,
                               generate_password_hash(password), is_admin))

update_password(user_id, new_password) ==
    LET W(r) == [r EXCEPT !.password_hash = generate_password_hash(new_password)]
    IN users' = UpdateUser(user_id, W)

update_emergency_contact(user_id, name, email, relation) ==
    LET W(r) == [r EXCEPT !.emergency_name = name,
                          !.emergency_email = email,
                          !.emergency_relation = relation]
    IN users' = UpdateUser(user_id, W)

set_admin_flag(user_id, is_admin) ==
    LET W(r) == [r EXCEPT !.is_admin = IF is_admin THEN 1 ELSE 0]
    IN users' = UpdateUser(user_id, W)

\* a variant that stores the submission and leaves the user row alone
record_payment_submission_row_only(user_id, provider, currency, amount, reference) ==
    /\ payments' = Append(payments,
                          [ id        |-> Len(payments) + 1,
                            user_id   |-> user_id,
                            provider  |-> provider,
                            currency  |-> currency,
                            amount    |-> amount,
                            reference |-> reference ])
    /\ UNCHANGED users

\* a variant in which submitting a reference upgrades the account at once
record_payment_submission_activating(user_id, provider, currency, amount, reference) ==
    LET W(r) == [r EXCEPT !.payment_status = "pending", !.plan = ANNUAL]
    IN /\ payments' = Append(payments,
                             [ id        |-> Len(payments) + 1,
                               user_id   |-> user_id,
                               provider  |-> provider,
                               currency  |-> currency,
                               amount    |-> amount,
                               reference |-> reference ])
       /\ users' = UpdateUser(user_id, W)

record_payment_submission(user_id, provider, currency, amount, reference) ==
    LET W(r) == [r EXCEPT !.payment_status = "pending"]
    IN /\ payments' = Append(payments,
                             [ id        |-> Len(payments) + 1,
                               user_id   |-> user_id,
                               provider  |-> provider,
                               currency  |-> currency,
                               amount    |-> amount,
                               reference |-> reference ])
       /\ users' = UpdateUser(user_id, W)

\* a variant in which a rejection also takes the plan and its end date back
update_payment_status_downgrading(user_id, status) ==
    LET W(r) == IF status = "rejected"
                THEN [r EXCEPT !.payment_status = status, !.plan = FREE,
                               !.subscription_end = NULL]
                ELSE [r EXCEPT !.payment_status = status]
    IN users' = UpdateUser(user_id, W)

update_payment_status(user_id, status) ==
    LET W(r) == [r EXCEPT !.payment_status = status]
    IN users' = UpdateUser(user_id, W)

\* a variant that leaves payment_status to the caller's second statement
set_subscription_without_status(user_id, start, end, amount, currency, provider) ==
    LET W(r) == [r EXCEPT !.plan = ANNUAL,
                          !.subscription_start = IsoFormat(start),
                          !.subscription_end = IsoFormat(end),
                          !.is_premium = 1,
                          !.last_payment_amount = Number(amount),
                          !.last_payment_currency = currency,
                          !.last_payment_provider = provider]
    IN users' = UpdateUser(user_id, W)

\* a variant that upgrades the plan only of a row that is still pending
set_subscription_plan_if_pending(user_id, start, end, amount, currency, provider) ==
    LET W(r) == [r EXCEPT !.plan = IF r.payment_status = "pending" THEN ANNUAL ELSE r.plan,
                          !.subscription_start = IsoFormat(start),
                          !.subscription_end = IsoFormat(end),
                          !.is_premium = 1,
                          !.last_payment_amount = Number(amount),
                          !.last_payment_currency = currency,
                          !.last_payment_provider = provider,
                          !.payment_status = "active"]
    IN users' = UpdateUser(user_id, W)

\* a variant that activates the plan and leaves the dates as they were
set_subscription_without_dates(user_id, start, end, amount, currency, provider) ==
    LET W(r) == [r EXCEPT !.plan = ANNUAL,
                          !.is_premium = 1,
                          !.last_payment_amount = Number(amount),
                          !.last_payment_currency = currency,
                          !.last_payment_provider = provider,
                          !.payment_status = "active"]
    IN users' = UpdateUser(user_id, W)

\* a variant that adds the amount to the one recorded before
set_subscription_accumulating(user_id, start, end, amount, currency, provider) ==
    LET W(r) == [r EXCEPT !.plan = ANNUAL,
                          !.subscription_start = IsoFormat(start),
                          !.subscription_end = IsoFormat(end),
                          !.is_premium = 1,
                          !.last_payment_amount =
                               IF r.last_payment_amount = NoNumber THEN Number(amount)
                               ELSE Number(r.last_payment_amount[1] + amount),
                          !.last_payment_currency = currency,
                          !.last_payment_provider = provider,
                          !.payment_status = "active"]
    IN users' = UpdateUser(user_id, W)

set_subscription(user_id, start, end, amount, currency, provider) ==
    LET W(r) == [r EXCEPT !.plan = ANNUAL,
                          !.subscription_start = IsoFormat(start),
                          !.subscription_end = IsoFormat(end),
                          !.is_premium = 1,
                          !.last_payment_amount = Number(amount),
                          !.last_payment_currency = currency,
                          !.last_payment_provider = provider,
                          !.payment_status = "active"]
    IN users' = UpdateUser(user_id, W)

insert_document_record(user_id, filename_original, stored_path) ==
    /\ doc_seq' = doc_seq + 1
    /\ documents' = Append(documents,
                           [ id                |-> doc_seq + 1,
                             user_id           |-> user_id,
                             filename_original |-> filename_original,
                             stored_path       |-> stored_path ])

\* DELETE FROM documents WHERE id=? AND user_id=?  (rowcount > 0)
delete_document_ok(user_id, doc_id) ==
    \E i \in 1..Len(documents) :
        documents[i].id = doc_id /\ documents[i].user_id = user_id

\* a variant whose DELETE names the document only
delete_document_any_owner(user_id, doc_id) ==
    LET Keep(d) == d.id # doc_id
    IN documents' = SelectSeq(documents, Keep)

delete_document(user_id, doc_id) ==
    LET Keep(d) == ~(d.id = doc_id /\ d.user_id = user_id)
    IN documents' = SelectSeq(documents, Keep)

log_activity(user_id, action, doc_id) ==
    activity_log' = Append(activity_log,
                           [user_id |-> user_id, action |-> action, doc_id |-> doc_id])

---------------------------------------------------------------------------
(* Access gates of the pages                                               *)

PlanOf(user) == Upper(OrElse(user.plan, FREE))

\* a variant that locks on the subscription status alone
guard_access_any_plan(user) ==
    IF user = <<>> THEN "signin_stop"
    ELSE IF compute_subscription_status(user[1]) = "expired"
         THEN "locked_stop"
         ELSE "pass"

\* billing.guard_access(user); user is <<>> or <<row>>
guard_access(user) ==
    IF user = <<>> THEN "signin_stop"
    ELSE IF PlanOf(user[1]) # FREE /\ compute_subscription_status(user[1]) = "expired"
         THEN "locked_stop"
         ELSE "pass"

\* pages/1_Dashboard.show_plan_status(user, used_count)
show_plan_status(user, used_count) ==
    IF PlanOf(user) = FREE THEN "free_info"
    ELSE IF compute_subscription_status(user) = "active" THEN "active"
    ELSE IF compute_subscription_status(user) = "grace" THEN "grace_warning"
    ELSE "locked_stop"

\* a variant that only warns subscribers, whatever their status
UploadGate_warn_only(user, used) ==
    IF PlanOf(user) = FREE
    THEN IF used >= FREE_LIMIT THEN "limit_stop" ELSE "free_info"
    ELSE IF compute_subscription_status(user) = "active" THEN "pass"
    ELSE "grace_warning"

\* a variant that stops FREE users only above the limit
UploadGate_above_limit(user, used) ==
    IF PlanOf(user) = FREE
    THEN IF used > FREE_LIMIT THEN "limit_stop" ELSE "free_info"
    ELSE IF compute_subscription_status(user) = "expired" THEN "expired_stop"
    ELSE IF compute_subscription_status(user) = "grace" THEN "grace_warning"
    ELSE "pass"

\* pages/2_Upload_New.main, the plan / status block before the form
UploadGate(user, used) ==
    IF PlanOf(user) = FREE
    THEN IF used >= FREE_LIMIT THEN "limit_stop" ELSE "free_info"
    ELSE IF compute_subscription_status(user) = "expired" THEN "expired_stop"
    ELSE IF compute_subscription_status(user) = "grace" THEN "grace_warning"
    ELSE "pass"

\* pages/2_Upload_New.main, the second count taken after the form is submitted
UploadFinalGuard(plan, used_now) ==
    IF plan = FREE /\ used_now >= FREE_LIMIT THEN "limit_stop" ELSE "pass"

Stops == {"signin_stop", "locked_stop", "limit_stop", "expired_stop", "denied_stop"}

---------------------------------------------------------------------------
(* Session state (app.py, auth.py, pages/5_Admin_Panel.py)                 *)

Idle == [k |-> "none"]

\* what the last script run of a session rendered
Page(page, result) == [page |-> page, result |-> result]

NewSession == [user |-> <<>>, is_admin |-> "absent", pc |-> "idle", loc |-> Idle,
               out |-> Page("none", "none")]

BoolText(b) == IF b THEN "True" ELSE "False"

\* app.login_user(user)
app_login_user(s, user) ==
    [sess[s] EXCEPT !.user = <<user>>,
                    !.is_admin = BoolText(is_admin_email(user.email))]

\* app.logout_user()
app_logout_user(s) == [sess[s] EXCEPT !.user = <<>>, !.is_admin = "False"]

\* auth.login_user(email, password): the user is stored when verify_user
\* finds one; st.session_state.is_admin is not touched
auth_login_user(s, email, password) ==
    IF verify_user(email, password) # <<>>
    THEN [sess[s] EXCEPT !.user = verify_user(email, password)]
    ELSE sess[s]

\* auth.logout_user(): pops "user" only
auth_logout_user(s) == [sess[s] EXCEPT !.user = <<>>]

\* auth.get_current_user() / app.get_current_user()
get_current_user(s) == sess[s].user

\* a variant of the gate that also trusts the is_admin column of the row
is_current_admin_by_column(s) ==
    IF sess[s].is_admin = "True" THEN TRUE
    ELSE IF get_current_user(s) = <<>> THEN is_admin_email(NULL)
    ELSE \/ is_admin_email(get_current_user(s)[1].email)
         \/ get_current_user(s)[1].is_admin = 1

\* pages/5_Admin_Panel.is_current_admin()
is_current_admin(s) ==
    IF sess[s].is_admin = "True" THEN TRUE
    ELSE IF get_current_user(s) = <<>> THEN is_admin_email(NULL)
    ELSE is_admin_email(get_current_user(s)[1].email)

---------------------------------------------------------------------------
(* Bounds and the inputs the operations are tried with                     *)

MaxUsers      == 2
MaxPayments   == 2
MaxPaymentsAll == 1
MaxPaymentsRace == 2
MaxUploadsAll  == 1
MaxUploads    == 6
MaxDeletes    == 1
MaxDocId      == 3
MaxDayAdvance == 1
MaxTicks      == 1
MaxExports    == 1
MaxDays       == 1

\* the browser sessions
Sessions == {1, 2}

EmailA   == <<"a","@","x">>
EmailB   == <<"b","@","x">>

NGN    == <<"N","G","N">>
MANUAL == <<"m","a","n","u","a","l">>

\* the day the model starts on
T0 == Ymd2Ord(2025, 12, 28)

\* ADMIN_EMAILS with an upper-case, padded entry and an empty piece;
\* and a blank ADMIN_EMAILS with ADMIN_EMAIL set
EnvChoices ==
    { [many |-> <<" ","A","@","x"," ",","," ">>, single |-> EmailB],
      [many |-> <<" ">>, single |-> EmailB] }

FullNames   == { <<"n">>, <<" ">> }
TypedEmails == { EmailA, <<"A","@","x"," ">>, EmailB }
Passwords   == { <<"p">>, <<"q">> }
FileNames   == { <<"f">> }
FileBodies  == { "v1", "v2" }

PaymentInputs ==
    { [provider |-> MANUAL, currency |-> NGN,  amount |-> 35000, reference |-> <<"r">>],
      [provider |-> <<>>,   currency |-> <<>>, amount |-> 0,     reference |-> <<>>] }

StartChoices == { T0 }
EndChoices   == { T0 - GRACE_DAYS, T0, T0 + GRACE_DAYS + 1 }

---------------------------------------------------------------------------
(* Operations. A page run of a session happens while the session runs no  *)
(* other script (pc = "idle"); a run that makes several commits is one     *)
(* step per commit, so that other sessions interleave between them.        *)

IdleAt(s) == sess[s].pc = "idle"

\* the run of a page script ends, having rendered `result`
Show(s, page, result) ==
    [sess[s] EXCEPT !.out = Page(page, result), !.pc = "idle", !.loc = Idle]

DbUnchanged == UNCHANGED <<users, documents, doc_seq, files, payments, activity_log>>
ClockUnchanged == UNCHANGED <<env, today, utc_now>>

\* app.show_signup: the form of the landing page, shown when nobody is signed in
Signup(s, full_name_typed, email_typed, password) ==
    LET full_name == Strip(full_name_typed)
        email     == Strip(email_typed)
    IN /\ IdleAt(s)
       /\ get_current_user(s) = <<>>
       /\ ClockUnchanged
       /\ UNCHANGED <<documents, doc_seq, files, payments, activity_log>>
       /\ IF ~(full_name # <<>> /\ email # <<>> /\ password # <<>>)
          THEN /\ sess' = [sess EXCEPT ![s] = Show(s, "landing", "fill_fields")]
               /\ UNCHANGED users
          ELSE IF get_user_by_email(email) # <<>>
          THEN /\ sess' = [sess EXCEPT ![s] = Show(s, "landing", "exists_error")]
               /\ UNCHANGED users
          ELSE /\ create_user_insert(full_name, email, password, is_admin_email(email))
               /\ sess' = [sess EXCEPT ![s] =
                     [app_login_user(s, users'[Len(users')]) EXCEPT !.out = Page("landing", "created")]]

\* app.show_login
Login(s, email, password) ==
    /\ IdleAt(s)
    /\ get_current_user(s) = <<>>
    /\ ClockUnchanged /\ DbUnchanged
    /\ LET user == verify_user(email, password)
       IN IF user # <<>>
          THEN sess' = [sess EXCEPT ![s] =
                    [app_login_user(s, user[1]) EXCEPT !.out = Page("landing", "welcome")]]
          ELSE sess' = [sess EXCEPT ![s] = Show(s, "landing", "invalid")]

\* app.show_landing, the "Log out" button
Logout(s) ==
    /\ IdleAt(s)
    /\ get_current_user(s) # <<>>
    /\ ClockUnchanged /\ DbUnchanged
    /\ sess' = [sess EXCEPT ![s] = [app_logout_user(s) EXCEPT !.out = Page("landing", "signed_out")]]

\* auth.login_user called in a session
AuthLogin(s, email, password) ==
    /\ IdleAt(s)
    /\ ClockUnchanged /\ DbUnchanged
    /\ sess' = [sess EXCEPT ![s] =
          [auth_login_user(s, email, password) EXCEPT
              !.out = Page("auth_login",
                           IF verify_user(email, password) # <<>> THEN "user" ELSE "None"),
              !.loc = Idle]]

\* auth.logout_user called in a session
AuthLogout(s) ==
    /\ IdleAt(s)
    /\ ClockUnchanged /\ DbUnchanged
    /\ sess' = [sess EXCEPT ![s] =
          [auth_logout_user(s) EXCEPT !.out = Page("auth_logout", "None"), !.loc = Idle]]

\* a page that calls billing.guard_access(user)
GuardedPage(s) ==
    /\ IdleAt(s)
    /\ ClockUnchanged /\ DbUnchanged
    /\ sess' = [sess EXCEPT ![s] = Show(s, "guarded", guard_access(get_current_user(s)))]

\* pages/1_Dashboard.show_document_table: the rows listed, and the bytes the
\* "Download" buttons serve (stored_path read when the file exists)
show_document_table(user_id, docs) ==
    [ k         |-> "listing",
      user_id   |-> user_id,
      docs      |-> docs,
      downloads |-> { f \in files : \E i \in 1..Len(docs) : docs[i].stored_path = f.path } ]

\* pages/1_Dashboard.main without a button pressed: the plan banner, which
\* stops a locked account, then the document table
DashboardView(s) ==
    /\ IdleAt(s)
    /\ ClockUnchanged /\ DbUnchanged
    /\ LET user == get_current_user(s)
       IN IF user = <<>>
          THEN sess' = [sess EXCEPT ![s] = Show(s, "dashboard", "signin_stop")]
          ELSE LET gate == show_plan_status(user[1], count_user_documents(user[1].id))
               IN IF gate \in Stops
                  THEN sess' = [sess EXCEPT ![s] = Show(s, "dashboard", gate)]
                  ELSE sess' = [sess EXCEPT ![s] =
                           [Show(s, "dashboard", gate) EXCEPT
                               !.loc = show_document_table(user[1].id,
                                                           get_user_documents(user[1].id))]]

\* storage.build_user_zip: every file under uploads/<user_id>/
build_user_zip(user_id) == { f \in files : f.path[1] = user_id }

\* pages/4_Export_and_Safety.main with "Generate & Download ZIP" pressed:
\* build_user_zip, the download button, then log_activity("export_zip")
ExportZip(s) ==
    /\ IdleAt(s)
    /\ ClockUnchanged
    /\ UNCHANGED <<users, documents, doc_seq, files, payments>>
    /\ LET user == get_current_user(s)
       IN IF user = <<>>
          THEN /\ UNCHANGED activity_log
               /\ sess' = [sess EXCEPT ![s] = Show(s, "export", "signin_stop")]
          ELSE /\ log_activity(user[1].id, "export_zip", NoNumber)
               /\ sess' = [sess EXCEPT ![s] =
                     [Show(s, "export", "zip") EXCEPT
                         !.loc = [ k |-> "zip", user_id |-> user[1].id,
                                   zip |-> build_user_zip(user[1].id) ]]]

\* pages/2_Upload_New.main without the form submitted
UploadView(s) ==
    /\ IdleAt(s)
    /\ ClockUnchanged /\ DbUnchanged
    /\ LET user == get_current_user(s)
       IN IF user = <<>>
          THEN sess' = [sess EXCEPT ![s] = Show(s, "upload", "signin_stop")]
          ELSE sess' = [sess EXCEPT ![s] =
                   Show(s, "upload", UploadGate(user[1], count_user_documents(user[1].id)))]

\* pages/3_Settings_&_Emergency: "from db import ... update_user_premium" names
\* a function db.py does not define, so the page raises before main() runs
SettingsPage(s) ==
    /\ IdleAt(s)
    /\ ClockUnchanged /\ DbUnchanged
    /\ sess' = [sess EXCEPT ![s] = Show(s, "settings", "import_error")]

\* uploads being saved or inserted by some session
InFlightUploads ==
    Cardinality({ s \in Sessions :
                    sess[s].pc \in {"upload_recheck", "upload_save", "upload_insert"} })

NoFile == <<"NoFile">>

\* pages/2_Upload_New.main with "Save to Vault" pressed: the plan / status
\* block, then the form
UploadSubmit(s, file_name, file_body) ==
    /\ IdleAt(s)
    /\ ClockUnchanged /\ DbUnchanged
    /\ LET user == get_current_user(s)
       IN IF user = <<>>
          THEN sess' = [sess EXCEPT ![s] = Show(s, "upload", "signin_stop")]
          ELSE LET gate == UploadGate(user[1], count_user_documents(user[1].id))
               IN IF gate \in Stops
                  THEN sess' = [sess EXCEPT ![s] = Show(s, "upload", gate)]
                  ELSE IF file_name = NoFile
                  THEN sess' = [sess EXCEPT ![s] = Show(s, "upload", "choose_file")]
                  ELSE sess' = [sess EXCEPT ![s] =
                             [@ EXCEPT !.out = Page("upload", gate),
                                       !.pc = IF PlanOf(user[1]) = FREE
                                              THEN "upload_recheck" ELSE "upload_save",
                                       !.loc = [k |-> "upload", name |-> file_name,
                                                body |-> file_body, path |-> <<>>]]]

\* the final guard for FREE users: count_user_documents once more
UploadRecheck(s) ==
    /\ sess[s].pc = "upload_recheck"
    /\ ClockUnchanged /\ DbUnchanged
    /\ LET user == get_current_user(s)[1]
           g    == UploadFinalGuard(PlanOf(user), count_user_documents(user.id))
       IN IF g \in Stops
          THEN sess' = [sess EXCEPT ![s] = Show(s, "upload", g)]
          ELSE sess' = [sess EXCEPT ![s] = [@ EXCEPT !.pc = "upload_save"]]

\* storage.save_uploaded_file: uploads/<user_id>/<ts>_<name>, opened "wb"
StoredPath(user_id, ts, name) == <<user_id, ts, name>>

save_uploaded_file(user_id, name, body) ==
    LET path == StoredPath(user_id, utc_now, name)
    IN files' = { f \in files : f.path # path } \cup { [path |-> path, body |-> body] }

UploadSave(s) ==
    /\ sess[s].pc = "upload_save"
    /\ ClockUnchanged
    /\ UNCHANGED <<users, documents, doc_seq, payments, activity_log>>
    /\ LET user == get_current_user(s)[1]
       IN /\ save_uploaded_file(user.id, sess[s].loc.name, sess[s].loc.body)
          /\ sess' = [sess EXCEPT ![s] =
                [@ EXCEPT !.pc = "upload_insert",
                          !.loc = [@ EXCEPT !.path =
                                      StoredPath(user.id, utc_now, sess[s].loc.name)]]]

\* insert_document_record, then log_activity("upload")
UploadInsert(s) ==
    /\ sess[s].pc = "upload_insert"
    /\ ClockUnchanged
    /\ UNCHANGED <<users, files, payments>>
    /\ LET user == get_current_user(s)[1]
       IN /\ insert_document_record(user.id, sess[s].loc.name, sess[s].loc.path)
          /\ log_activity(user.id, "upload", doc_seq + 1)
          /\ sess' = [sess EXCEPT ![s] = Show(s, "upload", "saved")]

\* pages/1_Dashboard.main with the "Delete" button of a listed document pressed
DeleteClick(s, doc_id) ==
    /\ IdleAt(s)
    /\ get_current_user(s) # <<>>
    /\ ClockUnchanged /\ DbUnchanged
    /\ LET user == get_current_user(s)[1]
           gate == show_plan_status(user, count_user_documents(user.id))
           docs == get_user_documents(user.id)
       IN IF gate \in Stops
          THEN sess' = [sess EXCEPT ![s] = Show(s, "dashboard", gate)]
          ELSE /\ \E i \in 1..Len(docs) : docs[i].id = doc_id
               /\ sess' = [sess EXCEPT ![s] =
                     [@ EXCEPT !.out = Page("dashboard", gate), !.pc = "delete",
                               !.loc = [k |-> "delete", doc_id |-> doc_id]]]

\* show_document_table: delete_document, then log_activity("delete") when ok
DeleteDo(s) ==
    /\ sess[s].pc = "delete"
    /\ ClockUnchanged
    /\ UNCHANGED <<users, doc_seq, files, payments>>
    /\ LET user   == get_current_user(s)[1]
           doc_id == sess[s].loc.doc_id
       IN IF delete_document_ok(user.id, doc_id)
          THEN /\ delete_document(user.id, doc_id)
               /\ log_activity(user.id, "delete", doc_id)
               /\ sess' = [sess EXCEPT ![s] = Show(s, "dashboard", "deleted")]
          ELSE /\ delete_document(user.id, doc_id)
               /\ UNCHANGED activity_log
               /\ sess' = [sess EXCEPT ![s] = Show(s, "dashboard", "delete_failed")]

\* db.delete_document(user_id, doc_id) called with any arguments; the session
\* keeps the arguments and the value returned
DeleteDocumentCall(s, user_id, doc_id) ==
    /\ IdleAt(s)
    /\ ClockUnchanged
    /\ UNCHANGED <<users, doc_seq, files, payments, activity_log>>
    /\ delete_document(user_id, doc_id)
    /\ sess' = [sess EXCEPT ![s] =
          [@ EXCEPT !.out = Page("delete_document",
                                 BoolText(delete_document_ok(user_id, doc_id))),
                    !.loc = [k |-> "delete_document", user_id |-> user_id,
                             doc_id |-> doc_id]]]

\* db.record_payment_submission for the signed-in user (the form the pages
\* call "Settings -> Upgrade / Renewal")
SubmitPayment(s, p) ==
    /\ IdleAt(s)
    /\ get_current_user(s) # <<>>
    /\ ClockUnchanged
    /\ UNCHANGED <<documents, doc_seq, files, activity_log, sess>>
    /\ record_payment_submission(get_current_user(s)[1].id, p.provider, p.currency,
                                 p.amount, p.reference)

\* db.update_emergency_contact for the signed-in user
UpdateEmergencyContact(s, name, email, relation) ==
    /\ IdleAt(s)
    /\ get_current_user(s) # <<>>
    /\ ClockUnchanged
    /\ UNCHANGED <<documents, doc_seq, files, payments, activity_log, sess>>
    /\ update_emergency_contact(get_current_user(s)[1].id, name, email, relation)

\* db.update_password for the signed-in user
UpdatePassword(s, new_password) ==
    /\ IdleAt(s)
    /\ get_current_user(s) # <<>>
    /\ ClockUnchanged
    /\ UNCHANGED <<documents, doc_seq, files, payments, activity_log, sess>>
    /\ update_password(get_current_user(s)[1].id, new_password)

\* db.set_admin_flag: written by no page; tried here for any row by any session
SetAdminFlag(s, user_id, flag) ==
    /\ IdleAt(s)
    /\ user_id \in UserIds
    /\ ClockUnchanged
    /\ UNCHANGED <<documents, doc_seq, files, payments, activity_log, sess>>
    /\ set_admin_flag(user_id, flag)

\* a variant of the gate that lets every session through
require_admin_open(s) == TRUE

\* pages/5_Admin_Panel.require_admin: TRUE when the page goes on
require_admin(s) == is_current_admin(s)

\* float(amount or 0.0), (currency or "NGN"), (provider or "manual")
ApproveArgs(row, start, end) ==
    [ k        |-> "approve",
      user_id  |-> row.user_id,
      start    |-> start,
      end      |-> end,
      amount   |-> row.amount,
      currency |-> OrElse(row.currency, NGN),
      provider |-> OrElse(row.provider, MANUAL) ]

\* pages/5_Admin_Panel.main without a button pressed
AdminView(s) ==
    /\ IdleAt(s)
    /\ ClockUnchanged /\ DbUnchanged
    /\ IF ~require_admin(s)
       THEN sess' = [sess EXCEPT ![s] = Show(s, "admin", "denied_stop")]
       ELSE sess' = [sess EXCEPT ![s] = Show(s, "admin", "admin_listed")]

\* pages/5_Admin_Panel.main with "Approve & Activate" or "Reject" of the listed
\* payment pid pressed: require_admin, then the list is queried again and the
\* button of a row still listed fires
AdminClick(s, pid, button, start, end) ==
    /\ IdleAt(s)
    /\ ClockUnchanged /\ DbUnchanged
    /\ IF ~require_admin(s)
       THEN sess' = [sess EXCEPT ![s] = Show(s, "admin", "denied_stop")]
       ELSE LET rows == list_pending_payments
            IN \E i \in 1..Len(rows) :
                 /\ rows[i].id = pid
                 /\ sess' = [sess EXCEPT ![s] =
                      [@ EXCEPT !.out = Page("admin", "admin_listed"),
                                !.pc  = IF button = "approve" THEN "approve_set"
                                        ELSE "reject",
                                !.loc = IF button = "approve"
                                        THEN ApproveArgs(rows[i], start, end)
                                        ELSE [k |-> "reject",
                                              user_id |-> rows[i].user_id]]]

\* section_pending_approvals, approve: set_subscription(...)
ApproveSet(s) ==
    /\ sess[s].pc = "approve_set"
    /\ ClockUnchanged
    /\ UNCHANGED <<documents, doc_seq, files, payments, activity_log>>
    /\ LET a == sess[s].loc
       IN set_subscription(a.user_id, a.start, a.end, a.amount, a.currency, a.provider)
    /\ sess' = [sess EXCEPT ![s] = [@ EXCEPT !.pc = "approve_status"]]

\* section_pending_approvals, approve: update_payment_status(user_id, "active"),
\* then st.rerun() renders the panel again
ApproveStatus(s) ==
    /\ sess[s].pc = "approve_status"
    /\ ClockUnchanged
    /\ UNCHANGED <<documents, doc_seq, files, payments, activity_log>>
    /\ update_payment_status(sess[s].loc.user_id, "active")
    /\ sess' = [sess EXCEPT ![s] = Show(s, "admin", "admin_listed")]

\* section_pending_approvals, reject: update_payment_status(user_id, "rejected"),
\* then st.rerun() renders the panel again
RejectStatus(s) ==
    /\ sess[s].pc = "reject"
    /\ ClockUnchanged
    /\ UNCHANGED <<documents, doc_seq, files, payments, activity_log>>
    /\ update_payment_status(sess[s].loc.user_id, "rejected")
    /\ sess' = [sess EXCEPT ![s] = Show(s, "admin", "admin_listed")]

\* a second passes on the server clock
Tick ==
    /\ utc_now' = utc_now + 1
    /\ UNCHANGED <<env, today, sess>> /\ DbUnchanged

\* midnight passes: dt.date.today() is the next day
NextDay ==
    /\ today' = today + 1
    /\ UNCHANGED <<env, utc_now, sess>> /\ DbUnchanged

---------------------------------------------------------------------------
(* Starting states                                                         *)

\* ADMIN_EMAILS names a@x (typed upper-case and padded)
EnvA == [many |-> <<" ","A","@","x"," ",","," ">>, single |-> EmailB]

\* the row create_user writes for a sign-up
SignedUp(id, email) ==
    NewUserRow(id, <<"n">>, email, generate_password_hash(<<"p">>),
               Lower(Strip(email)) \in LoadAdminEmails(EnvA))

\* the session state show_signup / show_login leave for a row
SignedIn(row) ==
    [NewSession EXCEPT !.user = <<row>>,
                       !.is_admin = BoolText(Lower(Strip(row.email)) \in LoadAdminEmails(EnvA)),
                       !.out = Page("landing", "welcome")]

\* n documents uploaded by user_id in earlier seconds
StoredDoc(user_id, i) ==
    [ id |-> i, user_id |-> user_id, filename_original |-> <<"f">>,
      stored_path |-> StoredPath(user_id, 0 - i, <<"f">>) ]

---------------------------------------------------------------------------
(* SpecAccess: the access decisions of the pages, for one signed-in user   *)
(* whose row holds any plan, subscription_end and payment_status text,     *)
(* with any number of documents, on any day of the window.                 *)

DateWindow == (T0 - GRACE_DAYS - 2)..(T0 + GRACE_DAYS + 2)

FreeLower == <<"f","r","e","e">>

PlanInputs == { NULL, <<>>, FREE, FreeLower, ANNUAL }

UnparseableEnds ==
    { <<"s","o","o","n">>,
      <<"2","0","2","5","-","1","3","-","0","1">>,
      <<"2","0","2","5","-","0","2","-","3","0">>,
      <<"2","0","2","5","-","1","-","0","1">> }

MissingEnds == { NULL, <<>> }

EndInputs == MissingEnds \cup UnparseableEnds \cup { IsoFormat(e) : e \in DateWindow }

StatusInputs == { NONE, "pending", "active", "rejected" }

CountInputs == { 0, FREE_LIMIT - 1, FREE_LIMIT, FREE_LIMIT + 1 }

InitAccess ==
    /\ env = EnvA
    /\ today \in T0..(T0 + MaxDayAdvance)
    /\ \E plan \in PlanInputs, end \in EndInputs, ps \in StatusInputs :
          users = << [SignedUp(1, EmailB) EXCEPT !.plan = plan,
                                                 !.subscription_end = end,
                                                 !.payment_status = ps] >>
    /\ \E n \in CountInputs :
          /\ documents = [i \in 1..n |-> StoredDoc(1, i)]
          /\ doc_seq = n
          /\ files = { [path |-> StoredPath(1, 0 - i, <<"f">>), body |-> "v1"] : i \in 1..n }
          /\ activity_log = [i \in 1..n |-> [user_id |-> 1, action |-> "upload", doc_id |-> i]]
    /\ payments = <<>>
    /\ utc_now = 0
    /\ sess = [s \in Sessions |-> IF s = 1 THEN SignedIn(users[1]) ELSE NewSession]

NextAccess ==
    \/ \E s \in Sessions : DashboardView(s)
    \/ \E s \in Sessions : UploadView(s)
    \/ \E s \in Sessions : GuardedPage(s)

SpecAccess == InitAccess /\ [][NextAccess]_vars

---------------------------------------------------------------------------
(* Spec: the payment ledger. a@x (on the allow-list) and b@x have signed   *)
(* up; a@x is signed in on session 1, and session 2 is b@x or nobody.      *)
(* Users submit payment references; the Admin Panel approves and rejects.  *)

Init ==
    /\ env = EnvA
    /\ today = T0
    /\ users = << SignedUp(1, EmailA), SignedUp(2, EmailB) >>
    /\ documents = <<>>
    /\ doc_seq = 0
    /\ files = {}
    /\ payments = <<>>
    /\ activity_log = <<>>
    /\ utc_now = 0
    /\ \E second \in { NewSession, SignedIn(users[2]) } :
          sess = [s \in Sessions |-> IF s = 1 THEN SignedIn(users[1]) ELSE second]

Next ==
    \/ \E s \in Sessions, p \in PaymentInputs :
          Len(payments) < MaxPayments /\ SubmitPayment(s, p)
    \/ \E s \in Sessions : AdminView(s)
    \/ \E s \in Sessions, pid \in 1..MaxPayments, button \in {"approve", "reject"},
          start \in StartChoices, end \in EndChoices :
          AdminClick(s, pid, button, start, end)
    \/ \E s \in Sessions : ApproveSet(s)
    \/ \E s \in Sessions : ApproveStatus(s)
    \/ \E s \in Sessions : RejectStatus(s)

Spec == Init /\ [][Next]_vars

---------------------------------------------------------------------------
(* SpecUpload: b@x, new and on the FREE plan, uploads and deletes          *)
(* documents from one session, one request after the other.                *)

Deletes ==
    Cardinality({ i \in 1..Len(activity_log) : activity_log[i].action = "delete" })

InitUpload ==
    /\ env = EnvA
    /\ today = T0
    /\ users = << SignedUp(1, EmailB) >>
    /\ documents = <<>>
    /\ doc_seq = 0
    /\ files = {}
    /\ payments = <<>>
    /\ activity_log = <<>>
    /\ utc_now = 0
    /\ sess = [s \in Sessions |-> IF s = 1 THEN SignedIn(users[1]) ELSE NewSession]

NextUpload ==
    \/ \E s \in Sessions : UploadView(s)
    \/ \E s \in Sessions, file_name \in FileNames \cup {NoFile}, file_body \in FileBodies :
          doc_seq + InFlightUploads < MaxUploads /\ UploadSubmit(s, file_name, file_body)
    \/ \E s \in Sessions : UploadRecheck(s)
    \/ \E s \in Sessions : UploadSave(s)
    \/ \E s \in Sessions : UploadInsert(s)
    \/ \E s \in Sessions, doc_id \in 1..MaxUploads :
          Deletes < MaxDeletes /\ DeleteClick(s, doc_id)
    \/ \E s \in Sessions : DeleteDo(s)
    \/ utc_now < MaxTicks /\ Tick

SpecUpload == InitUpload /\ [][NextUpload]_vars

---------------------------------------------------------------------------
(* SpecAll: every operation that writes. a@x is signed in on session 1;    *)
(* session 2 signs up as b@x, signs in and out; both submit payment        *)
(* references, upload and delete documents, change their password and      *)
(* emergency contact and open the Settings page; a@x approves and rejects. *)

InitAll ==
    /\ env = EnvA
    /\ today = T0
    /\ users = << SignedUp(1, EmailA) >>
    /\ documents = <<>>
    /\ doc_seq = 0
    /\ files = {}
    /\ payments = <<>>
    /\ activity_log = <<>>
    /\ utc_now = 0
    /\ sess = [s \in Sessions |-> IF s = 1 THEN SignedIn(users[1]) ELSE NewSession]

NextAll ==
    \/ \E s \in Sessions :
          Len(users) < MaxUsers /\ Signup(s, <<"n">>, EmailB, <<"p">>)
    \/ \E s \in Sessions, password \in Passwords : Login(s, EmailB, password)
    \/ \E s \in Sessions : Logout(s)
    \/ \E s \in Sessions : SettingsPage(s)
    \/ \E s \in Sessions :
          /\ Len(payments) < MaxPaymentsAll
          /\ SubmitPayment(s, [provider |-> <<>>, currency |-> NGN,
                               amount |-> 35000, reference |-> <<"r">>])
    \/ \E s \in Sessions, pid \in 1..MaxPaymentsAll, button \in {"approve", "reject"} :
          AdminClick(s, pid, button, T0, T0 + GRACE_DAYS + 1)
    \/ \E s \in Sessions : ApproveSet(s)
    \/ \E s \in Sessions : ApproveStatus(s)
    \/ \E s \in Sessions : RejectStatus(s)
    \/ \E s \in Sessions, file_name \in FileNames :
          doc_seq + InFlightUploads < MaxUploadsAll /\ UploadSubmit(s, file_name, "v1")
    \/ \E s \in Sessions : UploadRecheck(s)
    \/ \E s \in Sessions : UploadSave(s)
    \/ \E s \in Sessions : UploadInsert(s)
    \/ \E s \in Sessions, doc_id \in 1..MaxUploadsAll : DeleteClick(s, doc_id)
    \/ \E s \in Sessions : DeleteDo(s)
    \/ \E s \in Sessions :
          UpdateEmergencyContact(s, <<"k">>, <<"k","@","x">>, <<"kin">>)
    \/ \E s \in Sessions : UpdatePassword(s, <<"q">>)

SpecAll == InitAll /\ [][NextAll]_vars

---------------------------------------------------------------------------
(* SpecAdmin: who is an admin. Nobody has signed up; the environment names *)
(* a@x in ADMIN_EMAILS, or leaves ADMIN_EMAILS blank and names b@x in      *)
(* ADMIN_EMAIL. People sign up, in and out, the is_admin column of any row *)
(* is set and cleared, and every session opens the Admin Panel.            *)

InitAdmin ==
    /\ env \in EnvChoices
    /\ today = T0
    /\ users = <<>>
    /\ documents = <<>>
    /\ doc_seq = 0
    /\ files = {}
    /\ payments = <<>>
    /\ activity_log = <<>>
    /\ utc_now = 0
    /\ sess = [s \in Sessions |-> NewSession]

NextAdmin ==
    \/ \E s \in Sessions, full_name \in FullNames, email \in TypedEmails :
          Len(users) < MaxUsers /\ Signup(s, full_name, email, <<"p">>)
    \/ \E s \in Sessions, email \in { Strip(e) : e \in TypedEmails }, password \in Passwords :
          Login(s, email, password)
    \/ \E s \in Sessions : Logout(s)
    \/ \E s \in Sessions, user_id \in 1..MaxUsers, flag \in BOOLEAN :
          SetAdminFlag(s, user_id, flag)
    \/ \E s \in Sessions : AdminView(s)

SpecAdmin == InitAdmin /\ [][NextAdmin]_vars

---------------------------------------------------------------------------
(* SpecStale: a session that outlives an approval. a@x (admin) is signed   *)
(* in on session 1, b@x (FREE, at or one under the free limit) on session  *)
(* 2. b@x submits a reference, a@x approves it, b@x goes on using the      *)
(* session, or signs out and in again.                                     *)

InitStale ==
    /\ env = EnvA
    /\ today = T0
    /\ users = << SignedUp(1, EmailA), SignedUp(2, EmailB) >>
    /\ \E n \in { FREE_LIMIT - 1, FREE_LIMIT } :
          /\ documents = [i \in 1..n |-> StoredDoc(2, i)]
          /\ doc_seq = n
          /\ files = { [path |-> StoredPath(2, 0 - i, <<"f">>), body |-> "v1"] : i \in 1..n }
          /\ activity_log = [i \in 1..n |-> [user_id |-> 2, action |-> "upload", doc_id |-> i]]
    /\ payments = <<>>
    /\ utc_now = 0
    /\ sess = [s \in Sessions |-> SignedIn(users[s])]

NextStale ==
    \/ \E s \in Sessions :
          /\ Len(payments) < MaxPaymentsAll
          /\ SubmitPayment(s, [provider |-> MANUAL, currency |-> NGN,
                               amount |-> 35000, reference |-> <<"r">>])
    \/ \E s \in Sessions, pid \in 1..MaxPaymentsAll, end \in EndChoices :
          AdminClick(s, pid, "approve", T0, end)
    \/ \E s \in Sessions : ApproveSet(s)
    \/ \E s \in Sessions : ApproveStatus(s)
    \/ \E s \in Sessions : UploadView(s)
    \/ \E s \in Sessions :
          doc_seq + InFlightUploads < MaxUploads /\ UploadSubmit(s, <<"f">>, "v1")
    \/ \E s \in Sessions : UploadRecheck(s)
    \/ \E s \in Sessions : UploadSave(s)
    \/ \E s \in Sessions : UploadInsert(s)
    \/ \E s \in Sessions : Logout(s)
    \/ \E s \in Sessions : Login(s, EmailB, <<"p">>)

SpecStale == InitStale /\ [][NextStale]_vars

---------------------------------------------------------------------------
(* SpecDocs: the document catalog and the upload folder. a@x and b@x are   *)
(* signed in and hold one document each; they upload, delete from the      *)
(* dashboard, and delete_document is called with any user and document.   *)

InitDocs ==
    /\ env = EnvA
    /\ today = T0
    /\ users = << SignedUp(1, EmailA), SignedUp(2, EmailB) >>
    /\ documents = << StoredDoc(1, 1), StoredDoc(2, 2) >>
    /\ doc_seq = 2
    /\ files = { [path |-> StoredPath(i, 0 - i, <<"f">>), body |-> "v1"] : i \in 1..2 }
    /\ activity_log = [i \in 1..2 |-> [user_id |-> i, action |-> "upload", doc_id |-> i]]
    /\ payments = <<>>
    /\ utc_now = 0
    /\ sess = [s \in Sessions |-> SignedIn(users[s])]

NextDocs ==
    \/ \E s \in Sessions :
          doc_seq + InFlightUploads < MaxDocId /\ UploadSubmit(s, <<"f">>, "v1")
    \/ \E s \in Sessions : UploadRecheck(s)
    \/ \E s \in Sessions : UploadSave(s)
    \/ \E s \in Sessions : UploadInsert(s)
    \/ \E s \in Sessions, doc_id \in 1..MaxDocId : DeleteClick(s, doc_id)
    \/ \E s \in Sessions : DeleteDo(s)
    \/ \E s \in Sessions, user_id \in UserIds, doc_id \in 1..(MaxDocId + 1) :
          DeleteDocumentCall(s, user_id, doc_id)

SpecDocs == InitDocs /\ [][NextDocs]_vars

---------------------------------------------------------------------------
(* SpecRace: two admin sessions on one pending user. a@x is signed in in   *)
(* two browsers; b@x has submitted a reference; both panels listed it, and *)
(* "Approve & Activate" was pressed in the first while "Reject" or         *)
(* "Approve & Activate" was pressed in the second, before either wrote.    *)

\* the session state AdminClick leaves for the button of a listed row
Clicked(admin_row, row, button, start, end) ==
    [SignedIn(admin_row) EXCEPT
        !.out = Page("admin", "admin_listed"),
        !.pc  = IF button = "approve" THEN "approve_set" ELSE "reject",
        !.loc = IF button = "approve" THEN ApproveArgs(row, start, end)
                ELSE [k |-> "reject", user_id |-> row.user_id]]

InitRace ==
    /\ env = EnvA
    /\ today = T0
    /\ users = << SignedUp(1, EmailA),
                  [SignedUp(2, EmailB) EXCEPT !.payment_status = "pending"] >>
    /\ documents = <<>>
    /\ doc_seq = 0
    /\ files = {}
    /\ \E p \in PaymentInputs :
          payments = << [id |-> 1, user_id |-> 2, provider |-> p.provider,
                         currency |-> p.currency, amount |-> p.amount,
                         reference |-> p.reference] >>
    /\ activity_log = <<>>
    /\ utc_now = 0
    /\ \E button \in {"approve", "reject"}, end1 \in EndChoices, end2 \in EndChoices :
          sess = [s \in Sessions |->
                    IF s = 1 THEN Clicked(users[1], payments[1], "approve", T0, end1)
                    ELSE Clicked(users[1], payments[1], button, T0, end2)]

NextRace ==
    \/ \E s \in Sessions : ApproveSet(s)
    \/ \E s \in Sessions : ApproveStatus(s)
    \/ \E s \in Sessions : RejectStatus(s)
    \/ \E s \in Sessions, p \in PaymentInputs :
          Len(payments) < MaxPaymentsRace /\ SubmitPayment(s, p)
    \/ \E s \in Sessions, pid \in 1..MaxPaymentsRace, button \in {"approve", "reject"},
          end \in EndChoices :
          AdminClick(s, pid, button, T0, end)

SpecRace == InitRace /\ [][NextRace]_vars

---------------------------------------------------------------------------
(* SpecVault: reading the vault. a@x is a subscriber whose plan is either  *)
(* current or expired past grace, b@x is on the FREE plan; each holds one  *)
(* document. a@x is signed in on session 1 and b@x on session 2; both open *)
(* the Dashboard, export and delete, and b@x uploads.                      *)

Exports == Cardinality({ i \in 1..Len(activity_log) : activity_log[i].action = "export_zip" })

InitVault ==
    /\ env = EnvA
    /\ today = T0
    /\ \E end \in { T0 - GRACE_DAYS - 1, T0 + 1 } :
          users = << [SignedUp(1, EmailA) EXCEPT !.plan = ANNUAL,
                                                  !.subscription_start = IsoFormat(end - 1),
                                                  !.subscription_end = IsoFormat(end),
                                                  !.is_premium = 1,
                                                  !.payment_status = "active"],
                     SignedUp(2, EmailB) >>
    /\ documents = << StoredDoc(1, 1), StoredDoc(2, 2) >>
    /\ doc_seq = 2
    /\ files = { [path |-> StoredPath(i, 0 - i, <<"f">>), body |-> "v1"] : i \in 1..2 }
    /\ activity_log = [i \in 1..2 |-> [user_id |-> i, action |-> "upload", doc_id |-> i]]
    /\ payments = <<>>
    /\ utc_now = 0
    /\ sess = [s \in Sessions |-> SignedIn(users[s])]

NextVault ==
    \/ \E s \in Sessions : DashboardView(s)
    \/ \E s \in Sessions : Exports < MaxExports /\ ExportZip(s)
    \/ doc_seq + InFlightUploads < MaxDocId /\ UploadSubmit(2, <<"f">>, "v1")
    \/ \E s \in Sessions : UploadRecheck(s)
    \/ \E s \in Sessions : UploadSave(s)
    \/ \E s \in Sessions : UploadInsert(s)
    \/ \E s \in Sessions, doc_id \in 1..MaxDocId : DeleteClick(s, doc_id)
    \/ \E s \in Sessions : DeleteDo(s)

SpecVault == InitVault /\ [][NextVault]_vars

---------------------------------------------------------------------------
(* SpecTabs: one FREE user, b@x, signed in on two sessions at once, two or *)
(* one documents under the free limit; both sessions upload.               *)

InitTabs ==
    /\ env = EnvA
    /\ today = T0
    /\ users = << SignedUp(1, EmailB) >>
    /\ \E n \in { FREE_LIMIT - 2, FREE_LIMIT - 1 } :
          /\ documents = [i \in 1..n |-> StoredDoc(1, i)]
          /\ doc_seq = n
          /\ files = { [path |-> StoredPath(1, 0 - i, <<"f">>), body |-> "v1"] : i \in 1..n }
          /\ activity_log = [i \in 1..n |-> [user_id |-> 1, action |-> "upload", doc_id |-> i]]
    /\ payments = <<>>
    /\ utc_now = 0
    /\ sess = [s \in Sessions |-> SignedIn(users[1])]

NextTabs ==
    \/ \E s \in Sessions : UploadView(s)
    \/ \E s \in Sessions, file_name \in FileNames \cup {NoFile} :
          doc_seq + InFlightUploads < MaxUploads /\ UploadSubmit(s, file_name, "v1")
    \/ \E s \in Sessions : UploadRecheck(s)
    \/ \E s \in Sessions : UploadSave(s)
    \/ \E s \in Sessions : UploadInsert(s)
    \/ utc_now < MaxTicks /\ Tick

SpecTabs == InitTabs /\ [][NextTabs]_vars

---------------------------------------------------------------------------
(* SpecHelpers: the session helpers of app.py and auth.py. a@x (named in   *)
(* ADMIN_EMAILS) and b@x have accounts; in each session the sign-in form   *)
(* and the log-out button of app.py and login_user / logout_user of        *)
(* auth.py run in any order, and the Admin Panel is opened.                *)

InitHelpers ==
    /\ env = EnvA
    /\ today = T0
    /\ users = << SignedUp(1, EmailA), SignedUp(2, EmailB) >>
    /\ documents = <<>>
    /\ doc_seq = 0
    /\ files = {}
    /\ payments = <<>>
    /\ activity_log = <<>>
    /\ utc_now = 0
    /\ sess = [s \in Sessions |-> NewSession]

NextHelpers ==
    \/ \E s \in Sessions, email \in {EmailA, EmailB}, password \in Passwords :
          Login(s, email, password)
    \/ \E s \in Sessions : Logout(s)
    \/ \E s \in Sessions, email \in {EmailA, EmailB}, password \in Passwords :
          AuthLogin(s, email, password)
    \/ \E s \in Sessions : AuthLogout(s)
    \/ \E s \in Sessions : AdminView(s)

SpecHelpers == InitHelpers /\ [][NextHelpers]_vars

---------------------------------------------------------------------------
(* SpecLock: a subscription running out. a@x (admin) is signed in on       *)
(* session 1. b@x is an ANNUAL subscriber signed in on session 2, whose    *)
(* plan ends today, or is on its last grace day, or expired yesterday, and *)
(* who holds one document. Days pass; b@x opens pages, submits a           *)
(* reference, tries to upload and delete, signs out and in; a@x approves   *)
(* or rejects.                                                             *)

InitLock ==
    /\ env = EnvA
    /\ today = T0
    /\ \E end \in { T0, T0 - GRACE_DAYS, T0 - GRACE_DAYS - 1 } :
          users = << SignedUp(1, EmailA),
                     [SignedUp(2, EmailB) EXCEPT !.plan = ANNUAL,
                                                  !.subscription_start = IsoFormat(end - 1),
                                                  !.subscription_end = IsoFormat(end),
                                                  !.is_premium = 1,
                                                  !.payment_status = "active"] >>
    /\ documents = << StoredDoc(2, 1) >>
    /\ doc_seq = 1
    /\ files = { [path |-> StoredPath(2, 0 - 1, <<"f">>), body |-> "v1"] }
    /\ activity_log = << [user_id |-> 2, action |-> "upload", doc_id |-> 1] >>
    /\ payments = <<>>
    /\ utc_now = 0
    /\ sess = [s \in Sessions |-> SignedIn(users[s])]

NextLock ==
    \/ today < T0 + MaxDays /\ NextDay
    \/ DashboardView(2)
    \/ UploadView(2)
    \/ /\ Len(payments) < MaxPaymentsAll
       /\ SubmitPayment(2, [provider |-> <<>>, currency |-> NGN,
                            amount |-> 35000, reference |-> <<"r">>])
    \/ \E pid \in 1..MaxPaymentsAll, button \in {"approve", "reject"} :
          AdminClick(1, pid, button, T0, T0 + GRACE_DAYS + 1)
    \/ \E s \in Sessions : ApproveSet(s)
    \/ \E s \in Sessions : ApproveStatus(s)
    \/ \E s \in Sessions : RejectStatus(s)
    \/ doc_seq + InFlightUploads < MaxUploadsAll + 1 /\ UploadSubmit(2, <<"f">>, "v1")
    \/ \E s \in Sessions : UploadSave(s)
    \/ \E s \in Sessions : UploadInsert(s)
    \/ \E doc_id \in 1..(MaxUploadsAll + 1) : Deletes < MaxDeletes /\ DeleteClick(2, doc_id)
    \/ \E s \in Sessions : DeleteDo(s)
    \/ Logout(2)
    \/ Login(2, EmailB, <<"p">>)

SpecLock == InitLock /\ [][NextLock]_vars

---------------------------------------------------------------------------
(* The free upload limit (SpecUpload)                                      *)

\* documents the table holds for the user of session s
Held(s) ==
    Cardinality({ i \in 1..Len(documents) : documents[i].user_id = sess[s].user[1].id })

\* C1: for a FREE user holding n documents, an upload attempt goes on exactly
\* when n < 5 and is stopped with the limit message when n >= 5, at the plan
\* block and again at the final guard; an attempt that goes on adds one
\* document; so, uploading from 0 documents in one session, the 5th upload is
\* saved and the 6th is stopped: the user never holds more than 5.
FreeLimit ==
    [][ \A s \in Sessions :
          (sess[s].user # <<>> /\ sess[s].user[1].plan = FREE) =>
             /\ (sess[s].pc = "idle" /\ sess'[s] # sess[s] /\ sess'[s].out.page = "upload") =>
                   /\ Held(s) >= 5 => sess'[s].out.result = "limit_stop" /\ sess'[s].pc = "idle"
                   /\ Held(s) < 5 => sess'[s].out.result \notin Stops
                   /\ (Held(s) < 5 /\ sess'[s].pc # "idle") => sess'[s].pc = "upload_recheck"
             /\ (sess[s].pc = "upload_recheck" /\ sess'[s] # sess[s]) =>
                   /\ Held(s) >= 5 => sess'[s].out.result = "limit_stop" /\ sess'[s].pc = "idle"
                   /\ Held(s) < 5 => sess'[s].pc = "upload_save"
             /\ (sess[s].pc = "upload_insert" /\ sess'[s] # sess[s]) =>
                   /\ Len(documents') = Len(documents) + 1
                   /\ sess'[s].out = Page("upload", "saved")
             /\ Len(documents') <= 5 ]_vars

\* five uploads and no delete, and the attempt after the 5th was stopped
FreeLimitWitness ==
    /\ Len(documents) = 5
    /\ doc_seq = 5
    /\ Len(activity_log) = 5
    /\ sess[1].out = Page("upload", "limit_stop")

---------------------------------------------------------------------------
(* Access decisions (SpecAccess)                                           *)

\* what the last page run of session s rendered
Rendered(s, page) == sess[s].out.page = page

PlanIsFree(row) == row.plan \in { NULL, <<>>, FREE, FreeLower }

\* C2: a user on the FREE plan is never locked out by guard_access or by
\* show_plan_status, whatever subscription_end and payment_status hold: both
\* decide "not locked" for the row, and the pages that ran them did not stop.
FreeNeverLocked ==
    \A s \in Sessions :
       LET u == sess[s].user
       IN (u # <<>> /\ PlanIsFree(u[1])) =>
             /\ guard_access(u) = "pass"
             /\ show_plan_status(u[1], count_user_documents(u[1].id)) = "free_info"
             /\ Rendered(s, "guarded") => sess[s].out.result = "pass"
             /\ Rendered(s, "dashboard") => sess[s].out.result = "free_info"

\* a FREE row with an unreadable end date and a rejected payment went through
\* the guard, and one with a missing end date went through the dashboard
FreeNeverLockedWitness ==
    /\ sess[1].user # <<>>
    /\ sess[1].user[1].plan = FREE
    /\ sess[1].user[1].subscription_end \in UnparseableEnds
    /\ sess[1].user[1].payment_status = "rejected"
    /\ Rendered(1, "guarded")
    /\ sess[1].out.result = "pass"

\* the row's end date is missing, or read as a date lies more than GRACE_DAYS
\* days before today
EndLongPast(row) ==
    \/ row.subscription_end = NULL
    \/ \E e \in DateWindow : row.subscription_end = IsoFormat(e) /\ today > e + 7

\* C3: for a user whose plan is not FREE and whose subscription is expired
\* (end date missing, or today past end + GRACE_DAYS), the Dashboard stops with
\* the lock message before listing documents and the Upload page stops before
\* accepting a file.
ExpiredSubscriberDenied ==
    \A s \in Sessions :
       LET u == sess[s].user
       IN (u # <<>> /\ ~PlanIsFree(u[1]) /\ EndLongPast(u[1])) =>
             /\ Rendered(s, "dashboard") => sess[s].out.result = "locked_stop"
             /\ Rendered(s, "upload") => sess[s].out.result = "expired_stop"
             /\ Rendered(s, "guarded") => sess[s].out.result = "locked_stop"

ExpiredSubscriberDeniedWitness ==
    /\ sess[1].user # <<>>
    /\ sess[1].user[1].plan = ANNUAL
    /\ sess[1].user[1].subscription_end = IsoFormat(today - 8)
    /\ Rendered(1, "upload")
    /\ sess[1].out.result = "expired_stop"

\* the status the dates call for, by integer comparison of day numbers
StatusByDays(end_day) ==
    IF today <= end_day THEN "active"
    ELSE IF today - end_day <= 7 THEN "grace"
    ELSE "expired"

\* C7: compute_subscription_status is 'active' iff today <= subscription_end,
\* 'grace' iff subscription_end < today <= subscription_end + 7, and 'expired'
\* otherwise: end = today is active, today-1 and today-7 are grace, today-8 is
\* expired, and an end date that is missing or is not a date is expired.
StatusBoundaries ==
    \A i \in UserIds :
       LET row == users[i]
           status == compute_subscription_status(row)
       IN /\ \A e \in DateWindow :
                row.subscription_end = IsoFormat(e) => status = StatusByDays(e)
          /\ row.subscription_end = IsoFormat(today) => status = "active"
          /\ row.subscription_end = IsoFormat(today - 1) => status = "grace"
          /\ row.subscription_end = IsoFormat(today - 7) => status = "grace"
          /\ row.subscription_end = IsoFormat(today - 8) => status = "expired"
          /\ row.subscription_end \in MissingEnds \cup UnparseableEnds => status = "expired"
          /\ status \in {"active", "grace", "expired"}

\* the dashboard of a subscriber whose end date is today - 7 shows the grace
\* warning
StatusBoundariesWitness ==
    /\ users[1].plan = ANNUAL
    /\ users[1].subscription_end = IsoFormat(today - 7)
    /\ sess[1].user = <<users[1]>>
    /\ Rendered(1, "dashboard")
    /\ sess[1].out.result = "grace_warning"

\* C8: subscription checks fail closed: a subscription_end that is missing or
\* cannot be parsed gives the status 'expired', and a non-FREE account holding
\* it is denied the dashboard and the upload form.
FailClosed ==
    \A s \in Sessions :
       LET u == sess[s].user
       IN (u # <<>> /\ u[1].subscription_end \in MissingEnds \cup UnparseableEnds) =>
             /\ compute_subscription_status(u[1]) = "expired"
             /\ subscription_days_left(u[1]) = 0
             /\ ~PlanIsFree(u[1]) =>
                   /\ Rendered(s, "dashboard") => sess[s].out.result = "locked_stop"
                   /\ Rendered(s, "upload") => sess[s].out.result = "expired_stop"

FailClosedWitness ==
    /\ sess[1].user # <<>>
    /\ sess[1].user[1].plan = ANNUAL
    /\ sess[1].user[1].subscription_end = <<"2","0","2","5","-","0","2","-","3","0">>
    /\ Rendered(1, "dashboard")
    /\ sess[1].out.result = "locked_stop"

---------------------------------------------------------------------------
(* The payment ledger (Spec)                                               *)

LedgerFields(row) ==
    <<row.plan, row.subscription_start, row.subscription_end, row.payment_status>>

\* the session's user is signed in with the address the allow-list names
ListedAdmin(s) ==
    /\ sess[s].user # <<>>
    /\ Lower(Strip(sess[s].user[1].email)) = EmailA

AdminWork == {"approve_set", "approve_status", "reject"}

\* C4: when the session is not an admin's, a request to the Admin Panel stops
\* at the gate: it shows "denied", lists nothing, never starts an approve or a
\* reject, and no user's plan, subscription_start, subscription_end or
\* payment_status changes with it.
NonAdminStopped ==
    [][ \A s \in Sessions :
          (~ListedAdmin(s) /\ sess'[s] # sess[s]) =>
             /\ sess'[s].pc \notin AdminWork
             /\ sess'[s].out = Page("admin", "denied_stop")
             /\ \A i \in UserIds : LedgerFields(users'[i]) = LedgerFields(users[i])
             /\ payments' = payments ]_vars

\* b@x, not on the list, was turned away while a payment was pending
NonAdminStoppedWitness ==
    /\ sess[2].user # <<>>
    /\ sess[2].user[1].email = EmailB
    /\ sess[2].out = Page("admin", "denied_stop")
    /\ list_pending_payments # <<>>

ApprovedDates(row) ==
    /\ row.subscription_start \in { IsoFormat(d) : d \in StartChoices }
    /\ row.subscription_end \in { IsoFormat(d) : d \in EndChoices }

AllFourWritten(row) ==
    /\ row.plan = ANNUAL
    /\ ApprovedDates(row)
    /\ row.payment_status = "active"

\* C9: approve is atomic: a step that writes a user's plan, subscription_start
\* or subscription_end, or that makes payment_status 'active', leaves the row
\* with plan = ANNUAL, both dates and payment_status = 'active' together; this
\* is so in the state right after the panel's set_subscription call, before
\* its update_payment_status call, whatever other sessions do.
ApproveAtomic ==
    [][ /\ \A i \in UserIds :
             LET a == users[i]
                 b == users'[i]
             IN (\/ b.plan # a.plan
                 \/ b.subscription_start # a.subscription_start
                 \/ b.subscription_end # a.subscription_end
                 \/ (b.payment_status # a.payment_status /\ b.payment_status = "active"))
                => AllFourWritten(b)
        /\ \A s \in Sessions :
             (sess[s].pc = "approve_set" /\ sess'[s].pc = "approve_status")
                => AllFourWritten(users'[sess[s].loc.user_id]) ]_vars

\* the state between set_subscription and update_payment_status, for a user
\* whose row was FREE and pending: all four fields are there already
ApproveAtomicWitness ==
    \E s \in Sessions :
       /\ sess[s].pc = "approve_status"
       /\ AllFourWritten(users[sess[s].loc.user_id])
       /\ users[sess[s].loc.user_id].is_premium = 1

\* C10: a payment submission, from any prior payment_status, adds exactly one
\* payments record, for a user whose payment_status is 'pending' once the step
\* is done, and the records already there are not modified.
SubmissionAddsOnePending ==
    [][ payments' # payments =>
          /\ Len(payments') = Len(payments) + 1
          /\ SubSeq(payments', 1, Len(payments)) = payments
          /\ payments'[Len(payments')].user_id \in UserIds
          /\ users'[payments'[Len(payments')].user_id].payment_status = "pending"
          /\ \A i \in UserIds :
                i # payments'[Len(payments')].user_id => users'[i] = users[i] ]_vars

\* a user approved on an earlier reference has submitted a second one
SubmissionAddsOnePendingWitness ==
    \E i \in UserIds :
       /\ users[i].plan = ANNUAL
       /\ users[i].payment_status = "pending"
       /\ Len(payments) = 2
       /\ payments[1].user_id = i
       /\ payments[2].user_id = i

\* C11: reject sets the target user's payment_status to 'rejected' and leaves
\* that user's plan, subscription_start, subscription_end (and every other
\* column), every payments record and every other user's row unchanged.
RejectOnlyStatus ==
    [][ \A s \in Sessions :
          (sess[s].pc = "reject" /\ sess'[s].pc # "reject") =>
             /\ users'[sess[s].loc.user_id] =
                   [users[sess[s].loc.user_id] EXCEPT !.payment_status = "rejected"]
             /\ LedgerFields(users'[sess[s].loc.user_id]) =
                   << users[sess[s].loc.user_id].plan,
                      users[sess[s].loc.user_id].subscription_start,
                      users[sess[s].loc.user_id].subscription_end,
                      "rejected" >>
             /\ \A i \in UserIds : i # sess[s].loc.user_id => users'[i] = users[i]
             /\ payments' = payments ]_vars

\* a subscriber's later reference was rejected: the plan and its dates stayed
RejectOnlyStatusWitness ==
    \E i \in UserIds :
       /\ users[i].payment_status = "rejected"
       /\ users[i].plan = ANNUAL
       /\ ApprovedDates(users[i])
       /\ Len(payments) = 2

\* the ids of the payments whose user is pending now
PendingIds ==
    { payments[k].id : k \in { j \in 1..Len(payments) :
                                  users[payments[j].user_id].payment_status = "pending" } }

\* C12: list_pending_payments returns exactly the payments records whose user
\* has payment_status 'pending' now, newest first; right after a submission the
\* new record is listed, and right after its user is approved or rejected none
\* of that user's records is.
PendingListExact ==
    /\ [](LET rows == list_pending_payments
          IN /\ { rows[k].id : k \in 1..Len(rows) } = PendingIds
             /\ Len(rows) = Cardinality(PendingIds)
             /\ \A k \in 1..Len(rows) : rows[k] = payments[rows[k].id]
             /\ \A k \in 1..(Len(rows) - 1) : rows[k].id > rows[k + 1].id)
    /\ [][ /\ payments' # payments =>
                (list_pending_payments')[1] = payments'[Len(payments')]
           /\ \A s \in Sessions :
                (sess[s].pc \in {"approve_set", "reject"} /\ sess'[s].pc # sess[s].pc) =>
                   \A k \in 1..Len(list_pending_payments') :
                      (list_pending_payments')[k].user_id # sess[s].loc.user_id ]_vars

\* two users are pending, and the later submission is listed first
PendingListExactWitness ==
    /\ Len(list_pending_payments) = 2
    /\ list_pending_payments[1].id = 2
    /\ list_pending_payments[1].user_id # list_pending_payments[2].user_id

\* C19: a payment submission with amount <= 0 or with an empty reference is
\* refused: no payments record is created for it (and payment_status stays),
\* so every stored record has a positive amount and a reference.
SubmissionsValid ==
    \A k \in 1..Len(payments) :
       /\ payments[k].amount > 0
       /\ payments[k].reference # <<>>

\* C20: an approval whose end date is before its start date is refused and
\* leaves the user's row alone; hence every stored subscription window has
\* subscription_start <= subscription_end.
WindowOrdered ==
    \A i \in UserIds :
       (users[i].subscription_start # NULL /\ users[i].subscription_end # NULL) =>
          \E a \in StartChoices, b \in EndChoices :
             /\ users[i].subscription_start = IsoFormat(a)
             /\ users[i].subscription_end = IsoFormat(b)
             /\ a <= b

---------------------------------------------------------------------------
(* Plan and subscription_end are the approval's alone (SpecAll)            *)

\* session s is at the panel's set_subscription call for user i
ApprovingNow(s, i) ==
    /\ sess[s].pc = "approve_set"
    /\ sess'[s].pc = "approve_status"
    /\ sess[s].loc.user_id = i

\* C5: plan becomes ANNUAL and subscription_end is written only by the admin
\* approve operation (set_subscription): a step in which a user's plan or
\* subscription_end changes is the panel's set_subscription step for that
\* user; signup writes a FREE row without an end date; every other operation
\* leaves both as they were.
OnlyApprovalWritesPlan ==
    [][ /\ \A i \in UserIds :
             (\/ users'[i].plan # users[i].plan
              \/ users'[i].subscription_end # users[i].subscription_end)
                => /\ \E s \in Sessions : ApprovingNow(s, i)
                   /\ users'[i].plan = ANNUAL
        /\ \A i \in 1..Len(users') :
             i \notin UserIds =>
                users'[i].plan = FREE /\ users'[i].subscription_end = NULL ]_vars

\* b@x signed up, had a reference rejected, uploaded and deleted a document,
\* changed password and emergency contact, opened Settings: still FREE
OnlyApprovalWritesPlanWitness ==
    /\ Len(users) = 2
    /\ users[2].plan = FREE
    /\ users[2].subscription_end = NULL
    /\ users[2].payment_status = "rejected"
    /\ users[2].password_hash = generate_password_hash(<<"q">>)
    /\ users[2].emergency_name = <<"k">>
    /\ \E j \in 1..Len(activity_log) :
          activity_log[j].user_id = 2 /\ activity_log[j].action = "delete"
    /\ \E s \in Sessions : sess[s].out = Page("settings", "import_error")

---------------------------------------------------------------------------
(* Who is an admin (SpecAdmin)                                             *)

\* the addresses the environment names, trimmed and lower-cased
NamedByEnv ==
    IF env.many = <<" ","A","@","x"," ",","," ">> THEN { EmailA } ELSE { EmailB }

Listed(email) == Lower(Strip(email)) \in NamedByEnv

\* C6: admin status is decided by allow-list membership alone: the flag the
\* session gets at signup and login, and the Admin Panel gate, are true
\* exactly when the user's trimmed, lower-cased email is named by ADMIN_EMAILS
\* (by ADMIN_EMAIL when ADMIN_EMAILS is blank); what the signup form carried,
\* set_admin_flag and the is_admin column do not let another email through.
AdminByAllowListOnly ==
    \A s \in Sessions :
       /\ sess[s].user # <<>> =>
             /\ sess[s].is_admin = "True" <=> Listed(sess[s].user[1].email)
             /\ is_current_admin(s) <=> Listed(sess[s].user[1].email)
             /\ sess[s].out.page = "admin" =>
                   (sess[s].out.result = "admin_listed" <=> Listed(sess[s].user[1].email))
       /\ sess[s].user = <<>> =>
             /\ sess[s].is_admin # "True"
             /\ ~is_current_admin(s)
             /\ sess[s].out.page = "admin" => sess[s].out.result = "denied_stop"

\* b@x is not named, its row has is_admin = 1 from set_admin_flag and it signed
\* in after that; the panel turned it away
AdminByAllowListOnlyWitness ==
    \E s \in Sessions :
       /\ NamedByEnv = { EmailA }
       /\ sess[s].user # <<>>
       /\ sess[s].user[1].email = EmailB
       /\ sess[s].user[1].is_admin = 1
       /\ sess[s].out = Page("admin", "denied_stop")

---------------------------------------------------------------------------
(* A session that outlives an approval (SpecStale)                         *)

\* the approval of user i is complete and, by its dates, not yet expired
ApprovalDone(i) ==
    /\ users[i].plan = ANNUAL
    /\ users[i].payment_status = "active"
    /\ \E e \in EndChoices : users[i].subscription_end = IsoFormat(e) /\ today <= e + 7
    /\ \A s \in Sessions :
          sess[s].pc \in {"approve_set", "approve_status"} => sess[s].loc.user_id # i

\* C13: once an admin approval for a FREE user has completed, the next upload
\* decision for that user does not apply the FREE_LIMIT cap, whatever the
\* document count, also in a session signed in before the approval: the
\* decision uses the plan stored now, not the one read at login.
UploadUsesStoredPlan ==
    [][ \A s \in Sessions :
          (/\ sess[s].user # <<>>
           /\ sess[s].pc = "idle"
           /\ sess'[s] # sess[s]
           /\ sess'[s].out.page = "upload"
           /\ ApprovalDone(sess[s].user[1].id))
             => sess'[s].out.result # "limit_stop" ]_vars

---------------------------------------------------------------------------
(* The catalog and the upload folder (SpecDocs)                            *)

Owns(user_id, doc_id) ==
    \E k \in 1..Len(documents) :
       documents[k].id = doc_id /\ documents[k].user_id = user_id

Without(doc_id) ==
    LET Other(d) == d.id # doc_id IN SelectSeq(documents, Other)

\* C14: delete_document(user_id, doc_id) removes a catalog row only when the
\* row's owner is user_id; for a doc_id of another user, or of no row, it
\* returns False and leaves every row as it was; and it removes no row other
\* than doc_id. The same holds for the dashboard's delete button.
DeleteOwnedOnly ==
    [][ \A s \in Sessions :
          /\ (sess'[s] # sess[s] /\ sess'[s].out.page = "delete_document") =>
                IF Owns(sess'[s].loc.user_id, sess'[s].loc.doc_id)
                THEN /\ sess'[s].out.result = "True"
                     /\ documents' = Without(sess'[s].loc.doc_id)
                ELSE /\ sess'[s].out.result = "False"
                     /\ documents' = documents
          /\ (sess[s].pc = "delete" /\ sess'[s].pc # "delete") =>
                IF Owns(sess[s].user[1].id, sess[s].loc.doc_id)
                THEN /\ sess'[s].out.result = "deleted"
                     /\ documents' = Without(sess[s].loc.doc_id)
                ELSE /\ sess'[s].out.result = "delete_failed"
                     /\ documents' = documents ]_vars

\* b@x asked for a@x's document 1: False, and both documents are still there
DeleteOwnedOnlyWitness ==
    \E s \in Sessions :
       /\ sess[s].out = Page("delete_document", "False")
       /\ sess[s].loc = [k |-> "delete_document", user_id |-> 2, doc_id |-> 1]
       /\ Owns(1, 1)
       /\ Owns(2, 2)

\* C15: deleting a document removes its stored blob together with its
\* metadata row, so that, whenever no upload is under way, there is no blob
\* without a metadata row and no metadata row without a blob.
BlobsMatchRows ==
    InFlightUploads = 0 =>
       /\ \A f \in files :
             \E k \in 1..Len(documents) : documents[k].stored_path = f.path
       /\ \A k \in 1..Len(documents) :
             \E f \in files : f.path = documents[k].stored_path

---------------------------------------------------------------------------
(* Two admin sessions on one pending user (SpecRace)                       *)

\* b@x's row after an approval of payments[1] with the given dates, with
\* payment_status as the later of the two operations leaves it
SerialOutcome(start, end, status) ==
    [ id                    |-> 2,
      full_name             |-> <<"n">>,
      email                 |-> EmailB,
      password_hash         |-> <<"#", "p">>,
      is_admin              |-> 0,
      emergency_name        |-> NULL,
      emergency_email       |-> NULL,
      emergency_relation    |-> NULL,
      plan                  |-> ANNUAL,
      subscription_start    |-> IsoFormat(start),
      subscription_end      |-> IsoFormat(end),
      is_premium            |-> 1,
      last_payment_amount   |-> <<payments[1].amount>>,
      last_payment_currency |-> IF payments[1].currency = <<>> THEN NGN
                                ELSE payments[1].currency,
      last_payment_provider |-> IF payments[1].provider = <<>> THEN MANUAL
                                ELSE payments[1].provider,
      payment_status        |-> status ]

\* C16: two admin sessions act at once on the same pending user, one approving
\* and one rejecting: however their database steps interleave, once both are
\* done the user's row is the row of approve-then-reject (approved, status
\* 'rejected') or of reject-then-approve (approved, status 'active').
RaceIsSerial ==
    (\A s \in Sessions : sess[s].pc \in AdminWork => sess[s].loc.user_id # 2) =>
       \E start \in StartChoices, end \in EndChoices :
          \/ users[2] = SerialOutcome(start, end, "rejected")
          \/ users[2] = SerialOutcome(start, end, "active")

\* both are done and the reject wrote last
RaceIsSerialWitness ==
    /\ \A s \in Sessions : sess[s].pc = "idle"
    /\ users[2].payment_status = "rejected"
    /\ users[2].plan = ANNUAL
    /\ Len(payments) = 1

\* C17: payment_status follows null -> pending -> {active, rejected}, with a
\* submission returning any state to pending: it changes to 'active' or to
\* 'rejected' only from 'pending', also when two admin sessions both rendered
\* the same pending list.
StatusFromPendingOnly ==
    [][ \A i \in UserIds :
          (/\ users'[i].payment_status # users[i].payment_status
           /\ users'[i].payment_status \in {"active", "rejected"})
             => users[i].payment_status = "pending" ]_vars

\* the row an approval with arguments a makes of row r
ApprovedOnce(r, a) ==
    [r EXCEPT !.plan = ANNUAL,
              !.subscription_start = IsoFormat(a.start),
              !.subscription_end = IsoFormat(a.end),
              !.is_premium = 1,
              !.last_payment_amount = <<a.amount>>,
              !.last_payment_currency = a.currency,
              !.last_payment_provider = a.provider,
              !.payment_status = "active"]

\* C18: approve is idempotent: the row after set_subscription depends on the
\* arguments only, so running approve a second time with the same start, end,
\* amount, currency and provider changes nothing, and neither does the
\* update_payment_status that follows it.
ApproveIdempotent ==
    [][ \A s \in Sessions :
          LET a == sess[s].loc
          IN /\ (sess[s].pc = "approve_set" /\ sess'[s].pc = "approve_status") =>
                   /\ users'[a.user_id] = ApprovedOnce(users[a.user_id], a)
                   /\ ApprovedOnce(users'[a.user_id], a) = users'[a.user_id]
                   /\ users[a.user_id] = ApprovedOnce(users[a.user_id], a) => users' = users
             /\ (sess[s].pc = "approve_status" /\ sess'[s].pc = "idle") =>
                   (users[a.user_id].payment_status = "active" => users' = users) ]_vars

\* both sessions have run set_subscription with the same arguments
ApproveIdempotentWitness ==
    /\ sess[1].pc = "approve_status"
    /\ sess[2].pc = "approve_status"
    /\ sess[1].loc = sess[2].loc
    /\ users[2] = ApprovedOnce(users[2], sess[1].loc)

---------------------------------------------------------------------------
(* Renewal warnings (SpecAccess)                                           *)

\* C21: for a non-FREE user the Dashboard and the Upload page allow the
\* action and attach a renewal warning exactly when the status is grace, or
\* is active with at most 7 days left; an active user with more than 7 days
\* left is allowed with no warning.
RenewalWarning ==
    \A s \in Sessions :
       LET u == sess[s].user
       IN (u # <<>> /\ ~PlanIsFree(u[1])) =>
             \A e \in DateWindow :
                (/\ u[1].subscription_end = IsoFormat(e)
                 /\ StatusByDays(e) # "expired"
                 /\ Rendered(s, "dashboard") \/ Rendered(s, "upload")) =>
                   IF StatusByDays(e) = "grace" \/ e - today <= 7
                   THEN sess[s].out.result = "grace_warning"
                   ELSE sess[s].out.result \in {"active", "pass"}

\* the part of C21 the pages do keep: a warning in grace, none for an active
\* subscriber, and nobody with a current or grace subscription is stopped
RenewalWarningInGraceOnly ==
    \A s \in Sessions :
       LET u == sess[s].user
       IN (u # <<>> /\ ~PlanIsFree(u[1])) =>
             \A e \in DateWindow :
                (/\ u[1].subscription_end = IsoFormat(e)
                 /\ StatusByDays(e) # "expired"
                 /\ Rendered(s, "dashboard") \/ Rendered(s, "upload")) =>
                   IF StatusByDays(e) = "grace"
                   THEN sess[s].out.result = "grace_warning"
                   ELSE sess[s].out.result \in {"active", "pass"}

\* an active subscriber whose plan ends today opened the Upload page
RenewalWarningWitness ==
    /\ sess[1].user # <<>>
    /\ sess[1].user[1].plan = ANNUAL
    /\ sess[1].user[1].subscription_end = IsoFormat(today)
    /\ Rendered(1, "upload")
    /\ sess[1].out.result = "pass"

---------------------------------------------------------------------------
(* Reading the vault (SpecVault)                                           *)

\* the session's account is locked: a plan that is not FREE, expired past
\* the grace days
Locked(s) ==
    /\ sess[s].user # <<>>
    /\ PlanOf(sess[s].user[1]) # FREE
    /\ compute_subscription_status(sess[s].user[1]) = "expired"

\* the last page run of session s rendered the document table / built the ZIP
ShowsListing(s) == Rendered(s, "dashboard") /\ sess[s].loc.k = "listing"
ShowsZip(s) == Rendered(s, "export") /\ sess[s].loc.k = "zip"

\* the last page run of session s handed out stored document bytes
GotContent(s) ==
    \/ ShowsZip(s) /\ sess[s].loc.zip # {}
    \/ ShowsListing(s) /\ sess[s].loc.downloads # {}

\* C22: a locked account cannot retrieve stored document content through any
\* page: the Export page's full-vault ZIP is denied for it, as the Dashboard
\* download is.
LockedGetsNoContent ==
    \A s \in Sessions : Locked(s) => ~GotContent(s)

\* the Dashboard's half of C22: its page stops before the document table
LockedDashboardStops ==
    \A s \in Sessions :
       (Locked(s) /\ Rendered(s, "dashboard")) => sess[s].out.result = "locked_stop"

\* a locked subscriber pressed "Generate & Download ZIP"
LockedGetsNoContentWitness ==
    /\ Locked(1)
    /\ Rendered(1, "export")
    /\ sess[1].out.result = "zip"

\* the folder a stored path lies in
FolderOf(path) == path[1]

\* C23: document access is bound to the owning account: over any uploads and
\* deletes by two users, the Dashboard listing of a user, the downloads it
\* offers and the ZIP built for that user hold only documents that user
\* uploaded. Every row and every file is written under the id of the session
\* that uploads it, and the pages of a session read by that id alone.
OwnDocumentsOnly ==
    /\ [](\A s \in Sessions :
            /\ ShowsListing(s) =>
                  /\ sess[s].loc.user_id = sess[s].user[1].id
                  /\ \A i \in 1..Len(sess[s].loc.docs) :
                        /\ sess[s].loc.docs[i].user_id = sess[s].user[1].id
                        /\ FolderOf(sess[s].loc.docs[i].stored_path) = sess[s].user[1].id
                  /\ \A f \in sess[s].loc.downloads : FolderOf(f.path) = sess[s].user[1].id
            /\ ShowsZip(s) =>
                  /\ sess[s].loc.user_id = sess[s].user[1].id
                  /\ \A f \in sess[s].loc.zip : FolderOf(f.path) = sess[s].user[1].id)
    /\ [][ /\ \A f \in files' \ files :
                \E s \in Sessions :
                   /\ sess[s].pc = "upload_save"
                   /\ FolderOf(f.path) = sess[s].user[1].id
                   /\ f.body = sess[s].loc.body
           /\ \A i \in 1..Len(documents') :
                 (\A j \in 1..Len(documents) : documents[j] # documents'[i]) =>
                    \E s \in Sessions :
                       /\ sess[s].pc = "upload_insert"
                       /\ documents'[i].user_id = sess[s].user[1].id
                       /\ documents'[i].stored_path = sess[s].loc.path
                       /\ FolderOf(sess[s].loc.path) = sess[s].user[1].id ]_vars

\* a@x, after b@x uploaded a second document, opened a Dashboard that lists
\* a@x's one document, and exported a ZIP holding a@x's one file
OwnDocumentsOnlyWitness ==
    /\ count_user_documents(2) = 2
    /\ sess[1].user[1].id = 1
    /\ \/ /\ Rendered(1, "dashboard")
          /\ sess[1].out.result = "active"
          /\ Len(sess[1].loc.docs) = 1
          /\ Cardinality(sess[1].loc.downloads) = 1
       \/ /\ Rendered(1, "export")
          /\ sess[1].out.result = "zip"
          /\ Cardinality(sess[1].loc.zip) = 1

---------------------------------------------------------------------------
(* One account on two sessions (SpecTabs)                                  *)

\* C24: under any interleaving of upload submissions from two sessions of
\* the same FREE user, the number of catalog rows owned by that user never
\* exceeds FREE_LIMIT while the plan is FREE.
FreeLimitAcrossSessions ==
    \A i \in UserIds :
       PlanOf(users[i]) = FREE => count_user_documents(i) <= FREE_LIMIT

\* both sessions passed the second count with one place left
FreeLimitAcrossSessionsWitness ==
    /\ count_user_documents(1) = FREE_LIMIT - 1
    /\ \A s \in Sessions : sess[s].pc = "upload_save"

---------------------------------------------------------------------------
(* The session helpers of app.py and auth.py (SpecHelpers)                 *)

\* C25: in every session state reachable by the login and logout helpers of
\* app.py and auth.py, is_current_admin() of the Admin Panel is true only if
\* a user is logged in and that user's email is on the allow-list; the
\* session's is_admin flag does not outlive the login that set it.
AdminFlagFollowsLogin ==
    \A s \in Sessions :
       /\ is_current_admin(s) =>
             sess[s].user # <<>> /\ Listed(sess[s].user[1].email)
       /\ sess[s].is_admin = "True" =>
             sess[s].user # <<>> /\ Listed(sess[s].user[1].email)
       /\ (Rendered(s, "admin") /\ sess[s].out.result = "admin_listed") =>
             sess[s].user # <<>> /\ Listed(sess[s].user[1].email)

\* b@x is signed in through auth.login_user in a session a@x used before,
\* and the Admin Panel let the session in
AdminFlagFollowsLoginWitness ==
    \E s \in Sessions :
       /\ sess[s].user # <<>>
       /\ sess[s].user[1].email = EmailB
       /\ sess[s].out = Page("admin", "admin_listed")

---------------------------------------------------------------------------
(* One account per admin address (SpecAdmin)                               *)

\* C26: for each allow-listed admin address at most one user account can
\* pass the admin check: after any sequence of signups no two distinct user
\* rows both have emails that is_admin_email accepts for the same entry.
OneAccountPerAdminAddress ==
    \A i \in UserIds, j \in UserIds :
       (/\ i # j
        /\ is_admin_email(users[i].email)
        /\ is_admin_email(users[j].email)) =>
          Lower(Strip(users[i].email)) # Lower(Strip(users[j].email))

\* what the uniqueness of the email column does give: no two rows hold the
\* same text
EmailTextUnique ==
    \A i \in UserIds, j \in UserIds : i # j => users[i].email # users[j].email

\* accounts "a@x" and "A@x" both exist, and the second is in the Admin Panel
OneAccountPerAdminAddressWitness ==
    /\ Len(users) = 2
    /\ users[1].email = EmailA
    /\ users[2].email = <<"A","@","x">>
    /\ \E s \in Sessions :
          sess[s].user = <<users[2]>> /\ sess[s].out = Page("admin", "admin_listed")

---------------------------------------------------------------------------
(* payment_status and access (SpecAccess)                                  *)

\* the row with another payment_status
WithStatus(row, ps) == [row EXCEPT !.payment_status = ps]

\* C27: access decisions do not depend on payment_status: for two user
\* states equal in plan, subscription_end and document count but different
\* in payment_status, guard_access, the Dashboard gate and the Upload gate
\* decide the same at the same date, and so did the pages that ran them.
PaymentStatusIrrelevant ==
    \A s \in Sessions :
       sess[s].user # <<>> =>
          \A ps \in StatusInputs :
             LET u == sess[s].user[1]
                 v == WithStatus(u, ps)
                 n == count_user_documents(u.id)
             IN /\ compute_subscription_status(v) = compute_subscription_status(u)
                /\ guard_access(<<v>>) = guard_access(<<u>>)
                /\ show_plan_status(v, n) = show_plan_status(u, n)
                /\ UploadGate(v, n) = UploadGate(u, n)
                /\ Rendered(s, "guarded") => sess[s].out.result = guard_access(<<v>>)
                /\ Rendered(s, "dashboard") => sess[s].out.result = show_plan_status(v, n)
                /\ Rendered(s, "upload") => sess[s].out.result = UploadGate(v, n)

\* an ANNUAL user inside the window whose payment was rejected went through
\* the Upload gate
PaymentStatusIrrelevantWitness ==
    /\ sess[1].user # <<>>
    /\ sess[1].user[1].plan = ANNUAL
    /\ sess[1].user[1].payment_status = "rejected"
    /\ sess[1].user[1].subscription_end = IsoFormat(today + 1)
    /\ Rendered(1, "upload")
    /\ sess[1].out.result = "pass"

---------------------------------------------------------------------------
(* A lock is lifted only by approval (SpecLock)                            *)

\* the row is one the gates lock
RowLocked(row) ==
    PlanOf(row) # FREE /\ compute_subscription_status(row) = "expired"

\* C28: a lock is lifted only by approval: once a non-FREE user's status is
\* expired it stays expired at every later date and after every other
\* operation, until set_subscription runs for that user (and a session
\* holding the locked row stays locked while it is signed in); with the
\* subscription_end unchanged the status only moves active -> grace ->
\* expired as the date advances. Stated for the steps that change the row,
\* the session's copy of it or the date: the status is a function of these.
LockLiftedOnlyByApproval ==
    [][ /\ \A i \in UserIds :
             (users'[i] # users[i] \/ today' # today) =>
                /\ (RowLocked(users[i]) /\ ~RowLocked(users[i])') =>
                      \E s \in Sessions : ApprovingNow(s, i)
                /\ users'[i].subscription_end = users[i].subscription_end =>
                      /\ compute_subscription_status(users[i]) = "expired" =>
                            compute_subscription_status(users[i])' = "expired"
                      /\ compute_subscription_status(users[i]) = "grace" =>
                            compute_subscription_status(users[i])' # "active"
        /\ \A s \in Sessions :
             (sess'[s].user # sess[s].user \/ today' # today) =>
                ((Locked(s) /\ sess'[s].user # <<>>) => Locked(s)') ]_vars

\* b@x was locked, submitted a reference that was rejected, signed out and in
\* again and was stopped at the Upload page a day later
LockLiftedOnlyByApprovalWitness ==
    /\ today > T0
    /\ users[2].payment_status = "rejected"
    /\ RowLocked(users[2])
    /\ sess[2].user = <<users[2]>>
    /\ Rendered(2, "upload")
    /\ sess[2].out.result = "expired_stop"

\* an approval lifted the lock of b@x
LockLifted ==
    /\ users[2].subscription_end = IsoFormat(T0 + GRACE_DAYS + 1)
    /\ ~RowLocked(users[2])
    /\ sess[2].user = <<users[2]>>

---------------------------------------------------------------------------
(* Consistency of the ledger fields (Spec)                                 *)

\* the text is a date as isoformat() writes it
IsIsoDate(t) == t # NULL /\ FromIsoFormat(t).ok

\* C29: in every reachable ledger state a user with payment_status 'active'
\* has plan 'ANNUAL', and a user with plan 'ANNUAL' has subscription_start
\* and subscription_end set to ISO dates; a plan that has become ANNUAL
\* never returns to FREE.
LedgerConsistent ==
    /\ [](\A i \in UserIds :
            /\ users[i].payment_status = "active" => users[i].plan = ANNUAL
            /\ users[i].plan = ANNUAL =>
                  /\ IsIsoDate(users[i].subscription_start)
                  /\ IsIsoDate(users[i].subscription_end))
    /\ [][ \A i \in UserIds :
              users[i].plan = ANNUAL => users'[i].plan = ANNUAL ]_vars

\* b@x was approved, submitted another reference and had it rejected: the
\* plan is still ANNUAL and the dates are those of the approval
LedgerConsistentWitness ==
    /\ users[2].plan = ANNUAL
    /\ users[2].payment_status = "rejected"
    /\ Len(payments) = 2
    /\ users[2].subscription_start = IsoFormat(T0)

---------------------------------------------------------------------------
(* Storage paths (SpecUpload)                                              *)

\* C30: distinct document records never share a storage path: over any
\* sequence of uploads by one user, two uploads of one file name within one
\* clock second included, save_uploaded_file returns a path no existing
\* document uses, so a later upload never overwrites an earlier document.
StoragePathsDistinct ==
    \A i \in 1..Len(documents), j \in 1..Len(documents) :
       i # j => documents[i].stored_path # documents[j].stored_path

\* across clock seconds the paths do differ
StoragePathsDistinctAcrossSeconds ==
    \A i \in 1..Len(documents), j \in 1..Len(documents) :
       (i # j /\ documents[i].stored_path[2] # documents[j].stored_path[2]) =>
          documents[i].stored_path # documents[j].stored_path

\* two documents uploaded in the same second under the same name: one file
\* is left, and it holds the bytes of the second upload
StoragePathsDistinctWitness ==
    /\ Len(documents) = 2
    /\ documents[1].stored_path = documents[2].stored_path
    /\ Cardinality(files) = 1
    /\ \E f \in files : f.path = documents[1].stored_path /\ f.body = "v2"
    /\ \E s \in Sessions : sess[s].out = Page("upload", "saved")

============================================================================
